---- MODULE Spec2Model ----
(***************************************************************************)
(* Run identity, snapshot persistence and the idempotence gate of the      *)
(* ML8s training pipeline (src/src/training_pipeline/pipeline.py and       *)
(* config.py).  Invocations of run_pipeline_local share one pipeline root  *)
(* on one storage backend.  Every storage call may fail; a process may     *)
(* terminate between any two storage calls.                                *)
(***************************************************************************)
EXTENDS Integers, Sequences, FiniteSets, TLC

\* ---------------------------------------------------------------- bounds
NumData == 2         \* distinct contents of the data root

\* hexdigest() and full[:12], scaled: a digest is two digits long, its first
\* digit has DigestBase values, and the run id is that first digit
DigestBase == 2
RunIdLen == 1

Procs == {"p1", "p2"}
\* invocations that follow one another run in one process slot
SeqProcs == {"p1"}

\* ---------------------------------------------------------------- values
NoDigest == << >>
NoCfg == [strict |-> FALSE, valid |-> FALSE]
DataContents == 1..NumData
\* the process environment: STRICT_DATA_FINGERPRINT (an identity-relevant
\* field) and whether PlatformConfig.parse_obj accepts the environment
RawConfigs == [strict : BOOLEAN, valid : BOOLEAN]

Absent == [st |-> "absent", fh |-> NoDigest, fp |-> 0]
Partial == [st |-> "partial", fh |-> NoDigest, fp |-> 0]
NoOwner == [fh |-> NoDigest, fp |-> 0]
NoPrev == [cfg |-> NoCfg, fp |-> 0]

\* compute_data_fingerprint seen from the pipeline: one value per content
compute_data_fingerprint(d) == d

\* canonical_json_str(build_canonical_config(cfg)): the identity-relevant
\* projection; STRICT_DATA_FINGERPRINT is itself an identity field
canonical_json_str(cfg) == IF cfg.strict THEN 1 ELSE 0

\* hashlib.sha256(...).hexdigest(): injective on its input, two digits long
Sha256(n) == << n % DigestBase, n \div DigestBase >>

\* compute_full_hash_and_run_id: the fingerprint enters the hash only when
\* include_data_fingerprint (cfg.STRICT_DATA_FINGERPRINT) is set
Combined(cj, fp, include) == cj * (NumData + 1) + (IF include THEN fp ELSE 0)
compute_full_hash(cj, fp, include) == Sha256(Combined(cj, fp, include))
compute_run_id(full) == SubSeq(full, 1, RunIdLen)

\* derive_artifact_root: "<pipeline_root>/ml8s_training_runs/<run_id>"; the
\* pipeline root is shared, so the artifact root is determined by run_id
derive_artifact_root(run_id) == run_id

FullHashes == { compute_full_hash(canonical_json_str(c), f, c.strict) : c \in RawConfigs, f \in DataContents }
Roots == { derive_artifact_root(compute_run_id(h)) : h \in FullHashes }

\* the snapshot record persist_config_snapshot builds (the fields the gate reads)
Snapshot(full, fp) == [st |-> "ok", fh |-> full, fp |-> fp]

\* ---------------------------------------------------------------- _norm_scalar
\* Strings are sequences of one-character strings.  CharOrder lists the
\* characters of the model by code point, the order sorted() compares by.
CharOrder == << " ", ",", "-", ".", "/", "0", "1", "2", "3", "4", "5", "6", "7", "8", "9",
                "A", "B", "D", "E", "F", "G", "I", "L", "N", "O", "R", "S", "T", "U", "Y",
                "a", "b", "d", "e", "f", "g", "i", "l", "n", "o", "r", "s", "t", "u", "x", "y" >>
Rank(c) == CHOOSE i \in 1..Len(CharOrder) : CharOrder[i] = c
DigitChars == << "0", "1", "2", "3", "4", "5", "6", "7", "8", "9" >>
Digits == {DigitChars[i] : i \in 1..Len(DigitChars)}
DigitVal(c) == (CHOOSE i \in 1..Len(DigitChars) : DigitChars[i] = c) - 1

\* the values a configuration field takes: None, bool, int, float, list of str,
\* str (the ones _norm_scalar returns), list of int, and a raised error
Val(t, b, n, e, items, str) == [t |-> t, b |-> b, n |-> n, e |-> e, items |-> items, ints |-> << >>, s |-> str]
VNull == Val("null", FALSE, 0, 0, << >>, << >>)
VBool(b) == Val("bool", b, 0, 0, << >>, << >>)
VInt(n) == Val("int", FALSE, n, 0, << >>, << >>)
\* a float: sign, digits without the point, number of fraction digits, with
\* the trailing zeros of the fraction dropped (1.50 and 1.5 are one float)
VFloat(neg, n, e) == Val("float", neg, n, e, << >>, << >>)
VList(items) == Val("list", FALSE, 0, 0, items, << >>)
VStr(str) == Val("str", FALSE, 0, 0, << >>, str)
VIntList(ints) == [VList(<< >>) EXCEPT !.t = "intlist", !.ints = ints]
VError == Val("error", FALSE, 0, 0, << >>, << >>)

\* str.strip()
RECURSIVE LStrip(_)
LStrip(s) == IF s # << >> /\ Head(s) = " " THEN LStrip(Tail(s)) ELSE s
RECURSIVE RStrip(_)
RStrip(s) == IF s # << >> /\ s[Len(s)] = " " THEN RStrip(SubSeq(s, 1, Len(s) - 1)) ELSE s
strip(s) == RStrip(LStrip(s))

\* str.lower()
LowerChar(c) ==
    CASE c = "A" -> "a" [] c = "B" -> "b" [] c = "D" -> "d" [] c = "E" -> "e"
      [] c = "F" -> "f" [] c = "G" -> "g" [] c = "I" -> "i" [] c = "L" -> "l"
      [] c = "N" -> "n" [] c = "O" -> "o" [] c = "R" -> "r" [] c = "S" -> "s"
      [] c = "T" -> "t" [] c = "U" -> "u" [] c = "Y" -> "y" [] OTHER -> c
lower(s) == [i \in 1..Len(s) |-> LowerChar(s[i])]

\* config.py 104-105: the boolean tokens
TrueTokens == { <<"t", "r", "u", "e">>, <<"1">>, <<"y", "e", "s">> }
FalseTokens == { <<"f", "a", "l", "s", "e">>, <<"0">>, <<"n", "o">> }

\* config.py 106: re.fullmatch(r"^-?\d+$", s)
IsDigits(s) == Len(s) >= 1 /\ \A i \in 1..Len(s) : s[i] \in Digits
IntLooking(s) == IsDigits(s) \/ (Len(s) >= 2 /\ s[1] = "-" /\ IsDigits(Tail(s)))

\* config.py 111: re.fullmatch(r"^-?\d+\.\d+$", s)
DecimalLooking(s) ==
    \E k \in 2..(Len(s) - 1) :
        /\ s[k] = "."
        /\ IntLooking(SubSeq(s, 1, k - 1))
        /\ IsDigits(SubSeq(s, k + 1, Len(s)))

\* int(s)
RECURSIVE NatOf(_)
NatOf(s) == IF s = << >> THEN 0 ELSE NatOf(SubSeq(s, 1, Len(s) - 1)) * 10 + DigitVal(s[Len(s)])
IntOf(s) == IF s[1] = "-" THEN 0 - NatOf(Tail(s)) ELSE NatOf(s)

\* float(s)
RECURSIVE FloatNorm(_, _, _)
FloatNorm(neg, n, e) == IF e > 0 /\ n % 10 = 0 THEN FloatNorm(neg, n \div 10, e - 1) ELSE VFloat(neg, n, e)
FloatOf(s) ==
    LET k == CHOOSE i \in 1..Len(s) : s[i] = "."
        neg == s[1] = "-"
        ip == IF neg THEN SubSeq(s, 2, k - 1) ELSE SubSeq(s, 1, k - 1)
        fr == SubSeq(s, k + 1, Len(s))
    IN FloatNorm(neg, NatOf(ip \o fr), Len(fr))

\* s.split(",")
RECURSIVE Split(_, _)
Split(s, acc) ==
    IF s = << >> THEN << acc >>
    ELSE IF Head(s) = "," THEN << acc >> \o Split(Tail(s), << >>)
    ELSE Split(Tail(s), Append(acc, Head(s)))

\* [i.strip() for i in ... if i.strip() != ""]
RECURSIVE StripNonEmpty(_)
StripNonEmpty(parts) ==
    IF parts = << >> THEN << >>
    ELSE IF strip(Head(parts)) = << >> THEN StripNonEmpty(Tail(parts))
    ELSE << strip(Head(parts)) >> \o StripNonEmpty(Tail(parts))

\* list(dict.fromkeys(items)): first occurrences, in order
RECURSIVE Dedupe(_, _)
Dedupe(items, seen) ==
    IF items = << >> THEN << >>
    ELSE IF Head(items) \in seen THEN Dedupe(Tail(items), seen)
    ELSE << Head(items) >> \o Dedupe(Tail(items), seen \cup {Head(items)})

\* str < str
RECURSIVE StrLess(_, _)
StrLess(a, b) ==
    IF b = << >> THEN FALSE
    ELSE IF a = << >> THEN TRUE
    ELSE IF Head(a) = Head(b) THEN StrLess(Tail(a), Tail(b))
    ELSE Rank(Head(a)) < Rank(Head(b))

\* sorted(items)
RECURSIVE Insert(_, _)
Insert(x, sorted) ==
    IF sorted = << >> THEN << x >>
    ELSE IF StrLess(x, Head(sorted)) THEN << x >> \o sorted
    ELSE << Head(sorted) >> \o Insert(x, Tail(sorted))
RECURSIVE Sorted(_)
Sorted(items) == IF items = << >> THEN << >> ELSE Insert(Head(items), Sorted(Tail(items)))

\* config.py 116-119
CommaList(s) == VList(Sorted(Dedupe(StripNonEmpty(Split(s, << >>)), {})))

\* _norm_scalar with the integer rule tried before the boolean tokens
norm_scalar_IntFirst(v) ==
    LET s == strip(v)
        sl == lower(s)
    IN IF s = << >> THEN VNull
       ELSE IF IntLooking(s) THEN VInt(IntOf(s))
       ELSE IF sl \in TrueTokens \cup FalseTokens THEN VBool(sl \in TrueTokens)
       ELSE IF DecimalLooking(s) THEN FloatOf(s)
       ELSE IF \E i \in 1..Len(s) : s[i] = "," THEN CommaList(s)
       ELSE VStr(s)

\* config.py 97-120: _norm_scalar of a value that is set (None gives None at
\* line 98-99; an unset variable is the empty string here)
norm_scalar(v) ==
    LET s == strip(v)
        sl == lower(s)
    IN IF s = << >> THEN VNull
       ELSE IF sl \in TrueTokens \cup FalseTokens THEN VBool(sl \in TrueTokens)
       ELSE IF IntLooking(s) THEN VInt(IntOf(s))
       ELSE IF DecimalLooking(s) THEN FloatOf(s)
       ELSE IF \E i \in 1..Len(s) : s[i] = "," THEN CommaList(s)
       ELSE VStr(s)

\* str(x) of an int
RECURSIVE NatStr(_)
NatStr(n) == IF n < 10 THEN << DigitChars[n + 1] >> ELSE NatStr(n \div 10) \o << DigitChars[(n % 10) + 1] >>
IntStr(n) == IF n < 0 THEN << "-" >> \o NatStr(0 - n) ELSE NatStr(n)

\* config.py 471-479: the pre-validator of LAG_PERIODS (ROLLING_WINDOWS has
\* the same one at 481-489), applied to what _norm_scalar returned
parse_lag_periods(v) ==
    IF v.t = "null" THEN VNull
    ELSE IF v.t = "list" THEN
        IF \A i \in 1..Len(v.items) : IntLooking(v.items[i])
        THEN VIntList([i \in 1..Len(v.items) |-> IntOf(v.items[i])])
        ELSE VError
    ELSE IF v.t = "str" THEN
        LET parts == Split(v.s, << >>)
            kept == SelectSeq(parts, LAMBDA x : IsDigits(strip(x)))
        IN VIntList([i \in 1..Len(kept) |-> IntOf(kept[i])])
    ELSE VError

\* config.py 384: MODEL_LIST is an Optional[List[str]] with no validator of
\* its own; a list of strings and None are accepted as they are
parse_model_list(v) ==
    IF v.t \in {"null", "list"} THEN v ELSE VError

ListFields == {"LAG_PERIODS", "MODEL_LIST"}
parse_field(field, v) ==
    IF field = "LAG_PERIODS" THEN parse_lag_periods(v) ELSE parse_model_list(v)

\* config.py 528-537, without the sort
canonical_value_Unsorted(v) ==
    IF v.t = "null" \/ (v.t = "str" /\ v.s = << >>) THEN VNull
    ELSE IF v.t = "list" THEN VList(Dedupe(v.items, {}))
    ELSE IF v.t = "intlist" THEN VList(Dedupe([i \in 1..Len(v.ints) |-> IntStr(v.ints[i])], {}))
    ELSE v

\* config.py 528-537: the canonical value of one field of the loaded config
canonical_value(v) ==
    IF v.t = "null" \/ (v.t = "str" /\ v.s = << >>) THEN VNull
    ELSE IF v.t = "list" THEN VList(Sorted(Dedupe(v.items, {})))
    ELSE IF v.t = "intlist" THEN VList(Sorted(Dedupe([i \in 1..Len(v.ints) |-> IntStr(v.ints[i])], {})))
    ELSE v

\* json.dumps of one value, separators (",", ":")
RECURSIVE JoinQuoted(_)
JoinQuoted(items) ==
    IF items = << >> THEN << >>
    ELSE IF Len(items) = 1 THEN << "\"" >> \o Head(items) \o << "\"" >>
    ELSE << "\"" >> \o Head(items) \o << "\"", "," >> \o JoinQuoted(Tail(items))
RECURSIVE ZeroPad(_, _)
ZeroPad(digits, n) == IF Len(digits) >= n THEN digits ELSE ZeroPad(<< "0" >> \o digits, n)
FloatRepr(v) ==
    LET digits == ZeroPad(NatStr(v.n), v.e + 1)
        k == Len(digits) - v.e
        body == IF v.e = 0 THEN digits \o << ".", "0" >>
                ELSE SubSeq(digits, 1, k) \o << "." >> \o SubSeq(digits, k + 1, Len(digits))
    IN IF v.b THEN << "-" >> \o body ELSE body
JsonValue(v) ==
    CASE v.t = "null" -> << "n", "u", "l", "l" >>
      [] v.t = "bool" -> IF v.b THEN << "t", "r", "u", "e" >> ELSE << "f", "a", "l", "s", "e" >>
      [] v.t = "int" -> IntStr(v.n)
      [] v.t = "float" -> FloatRepr(v)
      [] v.t = "list" -> << "[" >> \o JoinQuoted(v.items) \o << "]" >>
      [] v.t = "str" -> << "\"" >> \o v.s \o << "\"" >>

\* config.py 267-268: json.dumps(obj, separators=(",", ":"), sort_keys=True)
\* of the map with the keys in keys (given in sorted order)
RECURSIVE JsonMembers(_, _)
JsonMembers(keys, obj) ==
    IF keys = << >> THEN << >>
    ELSE LET m == << "\"", Head(keys), "\"", ":" >> \o JsonValue(obj[Head(keys)])
         IN IF Len(keys) = 1 THEN m ELSE m \o << "," >> \o JsonMembers(Tail(keys), obj)
json_dumps(keys, obj) == << "{" >> \o JsonMembers(keys, obj) \o << "}" >>

\* hashlib.sha256(text).hexdigest(): a digest that stands for the text hashed
\* (no two texts share one)
sha256_hexdigest(text) == << "sha256" >> \o text

\* ------------------------------------------------------- the configuration
\* The variables of the model, in the order sort_keys=True puts them.  Of
\* IDENTITY_VARS (config.py 15-55): LAG_PERIODS, RETRAIN_FROM_MODEL_URI,
\* STRICT_DATA_FINGERPRINT, TARGET_COLUMN, TEST_SIZE.  Of PLATFORM_VARS
\* (config.py 57-92): CACHE_ENABLED, LOG_LEVEL, RAY_NUM_CPUS.
KeyOrder == << "CACHE_ENABLED", "LAG_PERIODS", "LOG_LEVEL", "RAY_NUM_CPUS", "RETRAIN_FROM_MODEL_URI",
               "STRICT_DATA_FINGERPRINT", "TARGET_COLUMN", "TEST_SIZE" >>
EnvNames == {KeyOrder[i] : i \in 1..Len(KeyOrder)}
IDENTITY_VARS == {"LAG_PERIODS", "RETRAIN_FROM_MODEL_URI", "STRICT_DATA_FINGERPRINT", "TARGET_COLUMN", "TEST_SIZE"}
PLATFORM_VARS == {"CACHE_ENABLED", "LOG_LEVEL", "RAY_NUM_CPUS"}

\* PlatformConfig.__fields__ (config.py 336-445): TEST_SIZE and
\* RETRAIN_FROM_MODEL_URI are on the identity whitelist but are not declared
FieldType ==
    [ CACHE_ENABLED |-> "bool", LAG_PERIODS |-> "intlist", LOG_LEVEL |-> "str", RAY_NUM_CPUS |-> "int",
      STRICT_DATA_FINGERPRINT |-> "bool", TARGET_COLUMN |-> "optstr" ]
Fields == DOMAIN FieldType

\* build_canonical_config that takes every attribute of the loaded config
CanonicalKeys_WithPlatform == Fields

\* build_canonical_config, config.py 524-525: the whitelisted names the
\* loaded config has as attributes
CanonicalKeys == {k \in IDENTITY_VARS : k \in Fields}

\* PlatformConfig.parse_obj on one field: a value of the field's own type is
\* kept; the raw values of the model stay within those types, a list item
\* that is no integer excepted
validate_field(field, v) ==
    CASE FieldType[field] = "intlist" -> parse_lag_periods(v)
      [] FieldType[field] = "bool" -> IF v.t = "bool" THEN v ELSE VError
      [] FieldType[field] = "int" -> IF v.t = "int" THEN v ELSE VError
      [] FieldType[field] = "str" -> IF v.t = "str" THEN v ELSE VError
      [] FieldType[field] = "optstr" -> IF v.t \in {"str", "null"} THEN v ELSE VError

\* config.py 512-518: only the declared fields are read from the environment
load_from_env(env) == [f \in Fields |-> validate_field(f, norm_scalar(env[f]))]
Validates(env) == \A f \in Fields : load_from_env(env)[f] # VError

\* config.py 522-538
build_canonical_config(c) == [k \in CanonicalKeys |-> canonical_value(c[k])]
SortKeys(keys) == SelectSeq(KeyOrder, LAMBDA k : k \in keys)
\* config.py 541-542
CanonicalJson(c) ==
    LET canonical_cfg == build_canonical_config(c)
    IN json_dumps(SortKeys(DOMAIN canonical_cfg), canonical_cfg)

\* the data fingerprint handed over: None/empty, or a hex digest
NoFingerprint == << >>
Fingerprints == { << "f1" >>, << "f2" >> }

\* config.py 280: run_id = full[:12]
RunIdChars == 12
NoIdentity == [raised |-> TRUE, full |-> << >>, run_id |-> << >>]

\* compute_full_hash_and_run_id that hashes the canonical JSON alone when the
\* fingerprint is missing
compute_full_hash_and_run_id_NoRaise(canonical_json, data_fingerprint, include_data_fingerprint) ==
    LET combined == IF include_data_fingerprint /\ data_fingerprint # NoFingerprint
                    THEN canonical_json \o << "\n" >> \o data_fingerprint
                    ELSE canonical_json
        h == sha256_hexdigest(combined)
    IN [raised |-> FALSE, full |-> h, run_id |-> SubSeq(h, 1, IF Len(h) < RunIdChars THEN Len(h) ELSE RunIdChars)]

\* config.py 270-281, called with include_data_fingerprint given (543)
compute_full_hash_and_run_id(canonical_json, data_fingerprint, include_data_fingerprint) ==
    IF include_data_fingerprint /\ data_fingerprint = NoFingerprint THEN NoIdentity
    ELSE LET combined == IF include_data_fingerprint
                         THEN canonical_json \o << "\n" >> \o data_fingerprint
                         ELSE canonical_json
             h == sha256_hexdigest(combined)
         IN [raised |-> FALSE, full |-> h, run_id |-> SubSeq(h, 1, IF Len(h) < RunIdChars THEN Len(h) ELSE RunIdChars)]

\* the raw values each variable of the model is given
RawValues ==
    [ CACHE_ENABLED |-> { << "t", "r", "u", "e" >>, << "0" >> },
      LAG_PERIODS |-> { << >>, << "1", ",", "2" >>, << "2", ",", "1" >>, << "1", ",", "x" >> },
      LOG_LEVEL |-> { << "I", "N", "F", "O" >>, << "D", "E", "B", "U", "G" >> },
      RAY_NUM_CPUS |-> { << "2" >>, << "4" >> },
      RETRAIN_FROM_MODEL_URI |-> { << >>, << "a" >>, << "x" >> },
      STRICT_DATA_FINGERPRINT |-> { << "t", "r", "u", "e" >>, << "n", "o" >> },
      TARGET_COLUMN |-> { << "a" >>, << "x" >> },
      TEST_SIZE |-> { << "0", ".", "2" >>, << "0", ".", "5" >> } ]
Envs ==
    [ CACHE_ENABLED : RawValues.CACHE_ENABLED, LAG_PERIODS : RawValues.LAG_PERIODS,
      LOG_LEVEL : RawValues.LOG_LEVEL, RAY_NUM_CPUS : RawValues.RAY_NUM_CPUS,
      RETRAIN_FROM_MODEL_URI : RawValues.RETRAIN_FROM_MODEL_URI,
      STRICT_DATA_FINGERPRINT : RawValues.STRICT_DATA_FINGERPRINT,
      TARGET_COLUMN : RawValues.TARGET_COLUMN, TEST_SIZE : RawValues.TEST_SIZE ]

\* ------------------------------------------------- the data fingerprint
\* The data root of the model: the files a and d/x, and possibly an empty
\* directory e, which an object store may show as a placeholder key "e/".
Root == << "r" >>
FileA == << "a" >>
FileX == << "d", "/", "x" >>
DirD == << "d" >>
DirE == << "e" >>
Placeholder == << "e", "/" >>
DataFiles == {FileA, FileX}
EmptyDirKinds == {"none", "plain", "placeholder"}
\* what fs.info offers: an ETag of 32 hex digits, an md5Hash in base64, an
\* ETag of another form (a multipart ETag) next to the size, a size only, or
\* neither
InfoModes == {"etag", "etag64", "other", "size", "none"}
\* the contents file a may have: empty, two of the same size, and a longer one
Contents == { << >>, << "A" >>, << "B" >>, << "A", "B" >> }
ContentOf(path, contentA) == IF path = FileA THEN contentA ELSE << "A" >>

\* compute_data_fingerprint(..., attempts=3), config.py 187, and _retry, 122-131
Attempts == 3

Perms(S) == {q \in [1..Cardinality(S) -> S] : {q[i] : i \in 1..Cardinality(S)} = S}
EndsWithSlash(path) == path # << >> /\ path[Len(path)] = "/"
FilesOnly(paths) == SelectSeq(paths, LAMBDA x : ~EndsWithSlash(x))

\* what fs.find(root) returns, in any order
FindEntries(emptyDir) == DataFiles \cup (IF emptyDir = "placeholder" THEN {Placeholder} ELSE {})
\* what fs.ls(root) returns, in any order
LsEntries(emptyDir) == {FileA, DirD} \cup (IF emptyDir = "none" THEN {} ELSE {DirE})

\* config.py 196 without the sort
list_files_find_Unsorted(order) == FilesOnly(order)

\* config.py 196
list_files_find(order) == Sorted(FilesOnly(order))

\* config.py 199-211: a directory entry is expanded with fs.find, and a
\* failure of that call is passed over
RECURSIVE LsExpand(_, _, _)
LsExpand(entries, dOk, emptyDir) ==
    IF entries = << >> THEN << >>
    ELSE LET e == Head(entries)
             here == IF e = DirD THEN (IF dOk THEN << FileX >> ELSE << >>)
                     ELSE IF e = DirE THEN (IF emptyDir = "placeholder" THEN << Placeholder >> ELSE << >>)
                     ELSE << e >>
         IN here \o LsExpand(Tail(entries), dOk, emptyDir)
list_files_ls(order, dOk, emptyDir) == Sorted(FilesOnly(LsExpand(order, dOk, emptyDir)))

\* digests as symbolic values: the 16 bytes of an MD5, their 32 hex digits,
\* and the base64 text of 16 bytes
Md5Raw(bytes) == << "raw" >> \o bytes
md5_hexdigest(bytes) == << "md5" >> \o bytes
HexOf(raw) == md5_hexdigest(Tail(raw))
b64encode(raw) == << "b64" >> \o raw
b64decode(v) == Tail(v)
\* config.py 144-145 and 162-164: the forms of a field value
is_hex32(v) == v # << >> /\ Head(v) = "md5"
IsBase64Of16(v) == v # << >> /\ Head(v) = "b64"

\* fs.info(path): the ETag is the MD5 of the content, in the form the store
\* gives it; a directory has no ETag, and a size other than 0 only where
\* sizes are all there is
NoField == << >>
EmptyInfo == [etag |-> NoField, size |-> NoField]
Info(path, contentA, mode) ==
    IF path = Root
    THEN [etag |-> NoField, size |-> IF mode = "size" THEN << "dirsize" >> ELSE << "0" >>]
    ELSE [etag |-> IF mode = "etag" THEN HexOf(Md5Raw(ContentOf(path, contentA)))
                   ELSE IF mode = "etag64" THEN b64encode(Md5Raw(ContentOf(path, contentA)))
                   ELSE IF mode = "other" THEN << "mpu" >> \o ContentOf(path, contentA)
                   ELSE NoField,
          size |-> IF mode = "none" THEN NoField ELSE IntStr(Len(ContentOf(path, contentA)))]

\* config.py 169-175: a size that is missing or 0 gives no token
SizeToken(info) ==
    IF info.size \notin {NoField, << "0" >>} THEN << "size", ":" >> \o info.size
    ELSE NoField

\* _extract_etag_like that looks at the size before the ETag fields
extract_etag_like_SizeFirst(info) ==
    IF SizeToken(info) # NoField THEN SizeToken(info)
    ELSE IF is_hex32(info.etag) THEN info.etag
    ELSE IF IsBase64Of16(info.etag) THEN md5_hexdigest(b64decode(info.etag))
    ELSE NoField

\* config.py 147-175: 32 hex digits are taken as they are (lower-cased); the
\* base64 text of 16 bytes gives the MD5 of those bytes; any other field value
\* is passed over
extract_etag_like(info) ==
    IF is_hex32(info.etag) THEN info.etag
    ELSE IF IsBase64Of16(info.etag) THEN md5_hexdigest(b64decode(info.etag))
    ELSE SizeToken(info)

\* config.py 229-238
MetaToken(path, info) ==
    LET et == extract_etag_like(info)
    IN IF Head(et) = "size" THEN path \o << ":" >> \o et
       ELSE path \o << ":" >> \o et \o << ":" >> \o info.size
\* the sizes of the chunk the streaming hash reads with (config.py 177: 8 MiB)
MaxChunk == 2
ChunkSizes == 1..MaxChunk
\* config.py 180-184: the chunks fh.read(chunk_size) returns until the end
RECURSIVE ReadChunks(_, _)
ReadChunks(content, chunk) ==
    IF content = << >> THEN << >>
    ELSE LET n == IF Len(content) < chunk THEN Len(content) ELSE chunk
         IN << SubSeq(content, 1, n) >> \o ReadChunks(SubSeq(content, n + 1, Len(content)), chunk)
\* h.update(chunk) for every chunk: the hash is over the bytes fed so far
RECURSIVE HashUpdate(_, _)
HashUpdate(fed, chunks) ==
    IF chunks = << >> THEN fed ELSE HashUpdate(fed \o Head(chunks), Tail(chunks))
\* config.py 177-185
stream_sha256_of_path(content, chunk) == sha256_hexdigest(HashUpdate(<< >>, ReadChunks(content, chunk)))
\* config.py 239-241, with the digest of the whole content
ShaToken(path, content) == path \o << ":", "sha256", ":" >> \o sha256_hexdigest(content)
\* the token of a path, by the kind of token the attempt ended with
TokenOf(path, contentA, mode, kind) ==
    IF kind = "meta" THEN MetaToken(path, Info(path, contentA, mode))
    ELSE ShaToken(path, ContentOf(path, contentA))

\* config.py 246-247
RECURSIVE JoinBar(_)
JoinBar(tokens) ==
    IF tokens = << >> THEN << >>
    ELSE IF Len(tokens) = 1 THEN Head(tokens)
    ELSE Head(tokens) \o << "|" >> \o JoinBar(Tail(tokens))
FingerprintOf(files, kinds, contentA, mode) ==
    sha256_hexdigest(JoinBar([i \in 1..Len(files) |-> TokenOf(files[i], contentA, mode, kinds[i])]))

\* the raw strings the normalizer is checked on
MaxRawLen == 3
NormChars == {" ", ",", "-", ".", "0", "1", "2", "N", "O", "n", "o"}
ExampleRaws == { << "3", ",", "1", ",", "2", ",", "3" >>, << "1", ",", "2", ",", "3" >>,
                 << "t", "r", "u", "e" >>, << "T", "R", "U", "E" >>, << "F", "a", "l", "s", "e" >>,
                 << "Y", "e", "s" >>, << " ", "y", "e", "s", " " >>, << "-", "1", ".", "5", "0" >>,
                 << "a", ",", "x", ",", "a" >>, << "1", "0", ",", "9", ",", "0", "9" >>,
                 << "x", "5" >> }
RawInputs == ExampleRaws \cup UNION { [1..n -> NormChars] : n \in 0..MaxRawLen }

VARIABLES
    hasRename,   \* hasattr(fs, "rename") of the storage backend
    snap,        \* <artifact_root>/config_snapshot.json
    snapTmp,     \* <artifact_root>/config_snapshot.json.tmp
    marker,      \* <artifact_root>/success.marker exists
    markerTmp,   \* <artifact_root>/success.marker.tmp exists
    pc,          \* position of each invocation
    cfg,         \* the raw configuration (process environment) of the invocation
    force,       \* FORCE_RERUN of the invocation
    fp,          \* boot["data_fingerprint"]
    full,        \* boot["full_config_hash"]
    out,         \* how the invocation ended: "early", "normal", "raised"
    reason,      \* gate.get("reason") of an early exit
    logged,      \* what idempotence_gate logged
    gateSeen,    \* what check_existing_run_and_validate answered
    downstream,  \* progress of the downstream stages of the invocation
    snapWrites,  \* number of times the invocation wrote the final snapshot uri
    markerBy,    \* the invocation created the success marker
    persistErr,  \* a storage call of the invocation's snapshot write failed for good
    markerOwner, \* identity of the invocation that created the present marker
    prev,        \* the last returned invocation, when it returned a normal result
    nz,          \* a raw value on its way through _norm_scalar and the canonicalizer
    idn,         \* an environment on its way through load_from_env and canonical_json_and_hash
    fpr,         \* a data root and the run of compute_data_fingerprint on it
    rt,          \* a call of _retry on a function that may raise
    fl,          \* an execution of ml8s_workflow
    bo           \* an environment taken through the bootstrap of both entrypoints

pipeVars == << hasRename, snap, snapTmp, marker, markerTmp, pc, cfg, force,
               fp, full, out, reason, logged, gateSeen, downstream, snapWrites, markerBy,
               persistErr, markerOwner, prev >>

\* the state of the pure computations, checked under their own specifications
pureVars == << nz, idn, fpr, rt, fl, bo >>

vars == << pipeVars, pureVars >>

storage == << snap, snapTmp, marker, markerTmp, markerOwner >>
locals == << cfg, force, fp, full, out, reason, logged, gateSeen, downstream, snapWrites,
            markerBy, persistErr >>

RootOf(p) == derive_artifact_root(compute_run_id(full[p]))

\* no pure computation is under way
NzIdle == [phase |-> "off", field |-> "LAG_PERIODS", raw |-> << >>, val |-> VNull, parsed |-> VNull, canon |-> VNull, json |-> << >>]
IdnIdle ==
    [ phase |-> "off", env |-> [k \in EnvNames |-> << >>], fp |-> NoFingerprint,
      cfg |-> [f \in Fields |-> VNull], canon |-> [k \in CanonicalKeys |-> VNull],
      json |-> << >>, id |-> NoIdentity ]
FprIdle ==
    [ phase |-> "off", content |-> << >>, mode |-> "etag", emptyDir |-> "none",
      attempt |-> 0, how |-> "none", skipped |-> FALSE, order |-> << >>,
      files |-> << >>, kinds |-> << >>, prefer |-> TRUE, infos |-> << >>, tokens |-> << >>,
      chunk |-> 0, result |-> NoFingerprint, first |-> NoFingerprint ]
RtIdle ==
    [ phase |-> "off", attempts |-> 0, i |-> 0, calls |-> 0, hist |-> << >>,
      last |-> "None", sleep |-> 0, result |-> "None", exc |-> "None" ]
FlIdle ==
    [ phase |-> "off", force |-> FALSE, marker |-> FALSE, snap |-> Absent,
      full |-> NoDigest, fp |-> 0, boot |-> "pending", idem |-> "pending",
      fe |-> "pending", train |-> "pending", early |-> "none", seen |-> "none",
      logged |-> "none" ]
NoBoot ==
    [ state |-> "none", canonical_json |-> << >>, data_fingerprint |-> << >>,
      full_config_hash |-> << >>, run_id |-> << >>, artifact_root |-> << >> ]
BoIdle ==
    [ phase |-> "off", DATA_ROOT |-> << >>, PIPELINE_ROOT_URI |-> << >>, strict |-> FALSE,
      content |-> << >>, local |-> NoBoot, flyte |-> NoBoot, main |-> NoBoot ]
PureIdle ==
    /\ nz = NzIdle
    /\ idn = IdnIdle
    /\ fpr = FprIdle
    /\ rt = RtIdle
    /\ fl = FlIdle
    /\ bo = BoIdle

PipelineInit ==
    /\ hasRename \in BOOLEAN
    /\ snap = [r \in Roots |-> Absent]
    /\ snapTmp = [r \in Roots |-> Absent]
    /\ marker = [r \in Roots |-> FALSE]
    /\ markerTmp = [r \in Roots |-> FALSE]
    /\ pc = [p \in Procs |-> "idle"]
    /\ cfg = [p \in Procs |-> NoCfg]
    /\ force = [p \in Procs |-> FALSE]
    /\ fp = [p \in Procs |-> 0]
    /\ full = [p \in Procs |-> NoDigest]
    /\ out = [p \in Procs |-> "none"]
    /\ reason = [p \in Procs |-> "none"]
    /\ logged = [p \in Procs |-> "none"]
    /\ gateSeen = [p \in Procs |-> "none"]
    /\ downstream = [p \in Procs |-> "none"]
    /\ snapWrites = [p \in Procs |-> 0]
    /\ markerBy = [p \in Procs |-> FALSE]
    /\ persistErr = [p \in Procs |-> FALSE]
    /\ markerOwner = [r \in Roots |-> NoOwner]
    /\ prev = NoPrev

Init ==
    /\ PipelineInit
    /\ PureIdle

\* ---------------------------------------------------------------- helpers
\* an exception leaves run_pipeline_local (pipeline.py 106-113: exit code 2)
Raised(p) ==
    /\ pc' = [pc EXCEPT ![p] = "ret"]
    /\ out' = [out EXCEPT ![p] = "raised"]

\* the invocation is over: its locals are forgotten
Reset(p) ==
    /\ pc' = [pc EXCEPT ![p] = "idle"]
    /\ cfg' = [cfg EXCEPT ![p] = NoCfg]
    /\ force' = [force EXCEPT ![p] = FALSE]
    /\ fp' = [fp EXCEPT ![p] = 0]
    /\ full' = [full EXCEPT ![p] = NoDigest]
    /\ out' = [out EXCEPT ![p] = "none"]
    /\ reason' = [reason EXCEPT ![p] = "none"]
    /\ logged' = [logged EXCEPT ![p] = "none"]
    /\ gateSeen' = [gateSeen EXCEPT ![p] = "none"]
    /\ downstream' = [downstream EXCEPT ![p] = "none"]
    /\ snapWrites' = [snapWrites EXCEPT ![p] = 0]
    /\ markerBy' = [markerBy EXCEPT ![p] = FALSE]
    /\ persistErr' = [persistErr EXCEPT ![p] = FALSE]

\* ---------------------------------------------------------------- environment
\* a pipeline process is started with some environment; invocations of the
\* sequential specification do not overlap
StartInvocation(p) ==
    /\ pc[p] = "idle"
    /\ \A q \in Procs : pc[q] = "idle"
    /\ \E c \in RawConfigs, f \in BOOLEAN :
          /\ cfg' = [cfg EXCEPT ![p] = c]
          /\ force' = [force EXCEPT ![p] = f]
    /\ pc' = [pc EXCEPT ![p] = "boot"]
    /\ UNCHANGED << hasRename, storage, fp, full, out, reason, logged, gateSeen,
                    downstream, snapWrites, markerBy, persistErr, prev >>

\* the process terminates between two storage calls
Crash(p) ==
    /\ pc[p] \notin {"idle", "ret"}
    /\ Reset(p)
    /\ prev' = NoPrev
    /\ UNCHANGED << hasRename, storage >>

\* ---------------------------------------------------------------- bootstrap
\* bootstrap_and_hash that returns the identity without persisting the snapshot
bootstrap_and_hash_NoPersist(p) ==
    /\ pc[p] = "boot"
    /\ \/ /\ cfg[p].valid
          /\ \E d \in DataContents :
                /\ fp' = [fp EXCEPT ![p] = compute_data_fingerprint(d)]
                /\ full' = [full EXCEPT ![p] =
                       compute_full_hash(canonical_json_str(cfg[p]), compute_data_fingerprint(d), cfg[p].strict)]
          /\ pc' = [pc EXCEPT ![p] = "gate"]
          /\ UNCHANGED out
       \/ /\ Raised(p)
          /\ UNCHANGED << fp, full >>
    /\ UNCHANGED << hasRename, storage, cfg, force, reason, logged, gateSeen,
                    downstream, snapWrites, markerBy, persistErr, prev >>

\* pipeline.py 13-20: load_from_env, compute_data_fingerprint of the data
\* root's content at that moment, canonical_json_and_hash,
\* derive_artifact_root.  A configuration that does not validate and a
\* fingerprint that cannot be computed raise.
bootstrap_and_hash(p) ==
    /\ pc[p] = "boot"
    /\ \/ /\ cfg[p].valid
          /\ \E d \in DataContents :
                /\ fp' = [fp EXCEPT ![p] = compute_data_fingerprint(d)]
                /\ full' = [full EXCEPT ![p] =
                       compute_full_hash(canonical_json_str(cfg[p]), compute_data_fingerprint(d), cfg[p].strict)]
          /\ pc' = [pc EXCEPT ![p] = "write_tmp"]
          /\ UNCHANGED out
       \/ /\ Raised(p)
          /\ UNCHANGED << fp, full >>
    /\ UNCHANGED << hasRename, storage, cfg, force, reason, logged, gateSeen,
                    downstream, snapWrites, markerBy, persistErr, prev >>

\* config.py 300-301: the serialized snapshot is written to "<uri>.tmp"; a
\* failed write raises out of _atomic_write_json and may leave a truncated
\* temp object
atomic_write_tmp(p) ==
    /\ pc[p] = "write_tmp"
    /\ \/ /\ snapTmp' = [snapTmp EXCEPT ![RootOf(p)] = Snapshot(full[p], fp[p])]
          /\ pc' = [pc EXCEPT ![p] = IF hasRename THEN "rename" ELSE "copy"]
          /\ UNCHANGED << out, persistErr >>
       \/ /\ \E t \in {snapTmp[RootOf(p)], Partial} :
                snapTmp' = [snapTmp EXCEPT ![RootOf(p)] = t]
          /\ persistErr' = [persistErr EXCEPT ![p] = TRUE]
          /\ Raised(p)
    /\ UNCHANGED << hasRename, snap, marker, markerTmp, markerOwner,
                    cfg, force, fp, full, reason, logged, gateSeen, downstream,
                    snapWrites, markerBy, prev >>

\* config.py 302-307: fs.rename(tmp, uri); a rename that raises is swallowed
\* and the copy fallback is tried
atomic_rename(p) ==
    /\ pc[p] = "rename"
    /\ \/ /\ snapTmp[RootOf(p)] # Absent
          /\ snap' = [snap EXCEPT ![RootOf(p)] = snapTmp[RootOf(p)]]
          /\ snapTmp' = [snapTmp EXCEPT ![RootOf(p)] = Absent]
          /\ snapWrites' = [snapWrites EXCEPT ![p] = @ + 1]
          /\ pc' = [pc EXCEPT ![p] = "gate"]
       \/ /\ pc' = [pc EXCEPT ![p] = "copy"]
          /\ UNCHANGED << snap, snapTmp, snapWrites >>
    /\ UNCHANGED << hasRename, marker, markerTmp, markerOwner,
                    cfg, force, fp, full, out, reason, logged, gateSeen, downstream,
                    markerBy, persistErr, prev >>

\* what a failed fs.copy(tmp, uri) can leave at uri: nothing new, or a
\* truncated object when the backend copies by streaming bytes
CopyFailureLeaves(old) == {old, Partial}

\* atomic_copy whose failure is swallowed like that of the rename
atomic_copy_Swallowed(p) ==
    /\ pc[p] = "copy"
    /\ \/ /\ snapTmp[RootOf(p)] # Absent
          /\ snap' = [snap EXCEPT ![RootOf(p)] = snapTmp[RootOf(p)]]
          /\ snapWrites' = [snapWrites EXCEPT ![p] = @ + 1]
          /\ pc' = [pc EXCEPT ![p] = "rm_tmp"]
          /\ UNCHANGED persistErr
       \/ /\ \E s \in CopyFailureLeaves(snap[RootOf(p)]) :
                snap' = [snap EXCEPT ![RootOf(p)] = s]
          /\ persistErr' = [persistErr EXCEPT ![p] = TRUE]
          /\ pc' = [pc EXCEPT ![p] = "gate"]
          /\ UNCHANGED snapWrites
    /\ UNCHANGED << hasRename, snapTmp, marker, markerTmp, markerOwner,
                    cfg, force, fp, full, out, reason, logged, gateSeen, downstream,
                    markerBy, prev >>

\* config.py 308-312, first call: fs.copy(tmp, uri); a failure raises
\* RuntimeError("Failed atomic write")
atomic_copy(p) ==
    /\ pc[p] = "copy"
    /\ \/ /\ snapTmp[RootOf(p)] # Absent
          /\ snap' = [snap EXCEPT ![RootOf(p)] = snapTmp[RootOf(p)]]
          /\ snapWrites' = [snapWrites EXCEPT ![p] = @ + 1]
          /\ pc' = [pc EXCEPT ![p] = "rm_tmp"]
          /\ UNCHANGED << out, persistErr >>
       \/ /\ \E s \in CopyFailureLeaves(snap[RootOf(p)]) :
                snap' = [snap EXCEPT ![RootOf(p)] = s]
          /\ persistErr' = [persistErr EXCEPT ![p] = TRUE]
          /\ Raised(p)
          /\ UNCHANGED snapWrites
    /\ UNCHANGED << hasRename, snapTmp, marker, markerTmp, markerOwner,
                    cfg, force, fp, full, reason, logged, gateSeen, downstream,
                    markerBy, prev >>

\* atomic_rm_tmp that returns the uri although fs.rm(tmp) failed
atomic_rm_tmp_Swallowed(p) ==
    /\ pc[p] = "rm_tmp"
    /\ \/ /\ snapTmp' = [snapTmp EXCEPT ![RootOf(p)] = Absent]
          /\ pc' = [pc EXCEPT ![p] = "gate"]
          /\ UNCHANGED << out, persistErr >>
       \/ /\ pc' = [pc EXCEPT ![p] = "gate"]
          /\ UNCHANGED << snapTmp, out, persistErr >>
    /\ UNCHANGED << hasRename, snap, marker, markerTmp, markerOwner,
                    cfg, force, fp, full, reason, logged, gateSeen, downstream,
                    snapWrites, markerBy, prev >>

\* config.py 310-313: fs.rm(tmp); a failure raises RuntimeError as well
atomic_rm_tmp(p) ==
    /\ pc[p] = "rm_tmp"
    /\ \/ /\ snapTmp' = [snapTmp EXCEPT ![RootOf(p)] = Absent]
          /\ pc' = [pc EXCEPT ![p] = "gate"]
          /\ UNCHANGED << out, persistErr >>
       \/ /\ persistErr' = [persistErr EXCEPT ![p] = TRUE]
          /\ Raised(p)
          /\ UNCHANGED snapTmp
    /\ UNCHANGED << hasRename, snap, marker, markerTmp, markerOwner,
                    cfg, force, fp, full, reason, logged, gateSeen, downstream,
                    snapWrites, markerBy, prev >>

\* ---------------------------------------------------------------- gate
Unreadable == [st |-> "error", fh |-> NoDigest, fp |-> 0]

\* what the gate's reads can return for an object: its state, or a failure
MarkerReads(r) == {IF marker[r] THEN "present" ELSE "absent", "error"}
SnapshotReads(r) == {snap[r], Unreadable}

\* the case the gate's reads put it in
Observed(m, s, expected_full_hash, expected_data_fingerprint) ==
    IF m = "absent" THEN "nomarker"
    ELSE IF m = "present" /\ s.st = "ok" /\ s.fh = expected_full_hash
                          /\ s.fp = expected_data_fingerprint THEN "valid"
    ELSE "anomaly"

\* check_existing_run_and_validate: (exists, status)
check_existing_run_and_validate(m, s, expected_full_hash, expected_data_fingerprint) ==
    IF m = "present" /\ s.st = "ok" /\ s.fh = expected_full_hash
                     /\ s.fp = expected_data_fingerprint
    THEN [exists |-> TRUE, status |-> "valid cached run"]
    ELSE [exists |-> FALSE, status |-> "no prior run"]

\* GateDecision with the test of exists left out of the first branch
GateDecision_ExistsIgnored(exists, force_rerun) ==
    IF ~force_rerun THEN "early"
    ELSE IF exists THEN "remove"
    ELSE "proceed"

\* GateDecision without the early return
GateDecision_NeverEarly(exists, force_rerun) ==
    IF exists THEN "remove" ELSE "proceed"

\* pipeline.py 38-50: the branch idempotence_gate takes
GateDecision(exists, force_rerun) ==
    IF exists /\ ~force_rerun THEN "early"
    ELSE IF exists /\ force_rerun THEN "remove"
    ELSE "proceed"

\* pipeline.py 35-41 and 59-61: the check, then early exit, marker removal or
\* proceeding
idempotence_gate(p) ==
    /\ pc[p] = "gate"
    /\ \E m \in MarkerReads(RootOf(p)), s \in SnapshotReads(RootOf(p)) :
        LET chk == check_existing_run_and_validate(m, s, full[p], fp[p])
            d == GateDecision(chk.exists, force[p])
        IN /\ gateSeen' = [gateSeen EXCEPT ![p] = Observed(m, s, full[p], fp[p])]
           /\ IF d = "early"
              THEN /\ pc' = [pc EXCEPT ![p] = "ret"]
                   /\ out' = [out EXCEPT ![p] = "early"]
                   /\ reason' = [reason EXCEPT ![p] = chk.status]
                   /\ logged' = [logged EXCEPT ![p] = "early exit"]
              ELSE /\ pc' = [pc EXCEPT ![p] = IF d = "remove" THEN "gate_rm" ELSE "mkdirs"]
                   /\ UNCHANGED << out, reason, logged >>
    /\ UNCHANGED << hasRename, storage, cfg, force, fp, full, downstream,
                    snapWrites, markerBy, persistErr, prev >>

\* pipeline.py 42-50: fs.exists / fs.rm of the marker; any exception is
\* logged and swallowed, and the gate returns early_exit=False
gate_remove_marker(p) ==
    /\ pc[p] = "gate_rm"
    /\ \/ /\ marker[RootOf(p)]
          /\ marker' = [marker EXCEPT ![RootOf(p)] = FALSE]
          /\ markerOwner' = [markerOwner EXCEPT ![RootOf(p)] = NoOwner]
          /\ logged' = [logged EXCEPT ![p] = "removed marker"]
       \/ /\ ~marker[RootOf(p)]
          /\ UNCHANGED << marker, markerOwner, logged >>
       \/ /\ logged' = [logged EXCEPT ![p] = "could not remove marker"]
          /\ UNCHANGED << marker, markerOwner >>
    /\ pc' = [pc EXCEPT ![p] = "mkdirs"]
    /\ UNCHANGED << hasRename, snap, snapTmp, markerTmp, cfg, force,
                    fp, full, out, reason, gateSeen, downstream, snapWrites,
                    markerBy, persistErr, prev >>

\* ---------------------------------------------------------------- downstream
\* pipeline.py 62-68: the .tmp directory, best effort; no later step of the
\* pipeline reads it and a failure is swallowed
run_makedirs(p) ==
    /\ pc[p] = "mkdirs"
    /\ pc' = [pc EXCEPT ![p] = "prep"]
    /\ UNCHANGED << hasRename, storage, locals, prev >>

\* pipeline.py 69-72: run_preprocessing returns or raises
run_preprocessing(p) ==
    /\ pc[p] = "prep"
    /\ \/ /\ downstream' = [downstream EXCEPT ![p] = "prep_ok"]
          /\ pc' = [pc EXCEPT ![p] = "train"]
          /\ UNCHANGED out
       \/ /\ downstream' = [downstream EXCEPT ![p] = "failed"]
          /\ Raised(p)
    /\ UNCHANGED << hasRename, storage, cfg, force, fp, full, reason, logged,
                    gateSeen, snapWrites, markerBy, persistErr, prev >>

\* run_train_and_eval whose exception is swallowed before the marker write
run_train_and_eval_Swallowed(p) ==
    /\ pc[p] = "train"
    /\ \E d \in {"train_ok", "failed"} : downstream' = [downstream EXCEPT ![p] = d]
    /\ pc' = [pc EXCEPT ![p] = "mk_tmp"]
    /\ UNCHANGED << hasRename, storage, cfg, force, fp, full, out, reason, logged,
                    gateSeen, snapWrites, markerBy, persistErr, prev >>

\* pipeline.py 73-83: run_train_and_eval returns or raises
run_train_and_eval(p) ==
    /\ pc[p] = "train"
    /\ \/ /\ downstream' = [downstream EXCEPT ![p] = "train_ok"]
          /\ pc' = [pc EXCEPT ![p] = "mk_tmp"]
          /\ UNCHANGED out
       \/ /\ downstream' = [downstream EXCEPT ![p] = "failed"]
          /\ Raised(p)
    /\ UNCHANGED << hasRename, storage, cfg, force, fp, full, reason, logged,
                    gateSeen, snapWrites, markerBy, persistErr, prev >>

\* ---------------------------------------------------------------- success marker
\* the result of pipeline.py 98-104
Normal(p) ==
    /\ pc' = [pc EXCEPT ![p] = "ret"]
    /\ out' = [out EXCEPT ![p] = "normal"]

\* pipeline.py 88-90: the empty temp object; pipeline.py 96-97 swallows a
\* failure and the normal result is returned
marker_write_tmp(p) ==
    /\ pc[p] = "mk_tmp"
    /\ \/ /\ markerTmp' = [markerTmp EXCEPT ![RootOf(p)] = TRUE]
          /\ pc' = [pc EXCEPT ![p] = IF hasRename THEN "mk_rename" ELSE "mk_copy"]
          /\ UNCHANGED out
       \/ /\ \E t \in {TRUE, markerTmp[RootOf(p)]} :
                markerTmp' = [markerTmp EXCEPT ![RootOf(p)] = t]
          /\ Normal(p)
    /\ UNCHANGED << hasRename, snap, snapTmp, marker, markerOwner,
                    cfg, force, fp, full, reason, logged, gateSeen, downstream,
                    snapWrites, markerBy, persistErr, prev >>

\* pipeline.py 91-92: fs.rename(tmp, marker_uri); a failure is swallowed
\* (no copy fallback here)
marker_rename(p) ==
    /\ pc[p] = "mk_rename"
    /\ \/ /\ markerTmp[RootOf(p)]
          /\ marker' = [marker EXCEPT ![RootOf(p)] = TRUE]
          /\ markerTmp' = [markerTmp EXCEPT ![RootOf(p)] = FALSE]
          /\ markerOwner' = [markerOwner EXCEPT ![RootOf(p)] = [fh |-> full[p], fp |-> fp[p]]]
          /\ markerBy' = [markerBy EXCEPT ![p] = TRUE]
       \/ UNCHANGED << marker, markerTmp, markerOwner, markerBy >>
    /\ Normal(p)
    /\ UNCHANGED << hasRename, snap, snapTmp, cfg, force, fp, full,
                    reason, logged, gateSeen, downstream, snapWrites, persistErr, prev >>

\* pipeline.py 93-94: fs.copy(tmp, marker_uri) on a backend without rename
marker_copy(p) ==
    /\ pc[p] = "mk_copy"
    /\ \/ /\ markerTmp[RootOf(p)]
          /\ marker' = [marker EXCEPT ![RootOf(p)] = TRUE]
          /\ markerOwner' = [markerOwner EXCEPT ![RootOf(p)] = [fh |-> full[p], fp |-> fp[p]]]
          /\ markerBy' = [markerBy EXCEPT ![p] = TRUE]
          /\ pc' = [pc EXCEPT ![p] = "mk_rm"]
          /\ UNCHANGED out
       \/ /\ UNCHANGED << marker, markerOwner, markerBy >>
          /\ Normal(p)
    /\ UNCHANGED << hasRename, snap, snapTmp, markerTmp, cfg, force,
                    fp, full, reason, logged, gateSeen, downstream, snapWrites, persistErr, prev >>

\* pipeline.py 95: fs.rm(tmp); a failure is swallowed
marker_rm_tmp(p) ==
    /\ pc[p] = "mk_rm"
    /\ \E t \in {FALSE, markerTmp[RootOf(p)]} :
          markerTmp' = [markerTmp EXCEPT ![RootOf(p)] = t]
    /\ Normal(p)
    /\ UNCHANGED << hasRename, snap, snapTmp, marker, markerOwner,
                    cfg, force, fp, full, reason, logged, gateSeen, downstream,
                    snapWrites, markerBy, persistErr, prev >>

\* the process exits (pipeline.py 106-113)
run_return(p) ==
    /\ pc[p] = "ret"
    /\ prev' = IF out[p] = "normal" THEN [cfg |-> cfg[p], fp |-> fp[p]] ELSE NoPrev
    /\ Reset(p)
    /\ UNCHANGED << hasRename, storage >>

\* ---------------------------------------------------------------- specification
Step(p) ==
    \/ bootstrap_and_hash(p)
    \/ atomic_write_tmp(p)
    \/ atomic_rename(p)
    \/ atomic_copy(p)
    \/ atomic_rm_tmp(p)
    \/ idempotence_gate(p)
    \/ gate_remove_marker(p)
    \/ run_makedirs(p)
    \/ run_preprocessing(p)
    \/ run_train_and_eval(p)
    \/ marker_write_tmp(p)
    \/ marker_rename(p)
    \/ marker_copy(p)
    \/ marker_rm_tmp(p)
    \/ run_return(p)

Next ==
    \/ (\E p \in SeqProcs : StartInvocation(p)) /\ UNCHANGED pureVars
    \/ (\E p \in SeqProcs : Step(p)) /\ UNCHANGED pureVars
    \/ (\E p \in SeqProcs : Crash(p)) /\ UNCHANGED pureVars

Spec == Init /\ [][Next]_vars

\* ------------------------------------------------ the normalizer, step by step
PipelineIdle ==
    /\ PipelineInit
    /\ hasRename = TRUE

NormInit ==
    /\ PipelineIdle
    /\ idn = IdnIdle
    /\ fpr = FprIdle
    /\ rt = RtIdle
    /\ fl = FlIdle
    /\ bo = BoIdle
    /\ \E r \in RawInputs, f \in ListFields :
           nz = [NzIdle EXCEPT !.phase = "raw", !.field = f, !.raw = r]

\* load_from_env, config.py 515-517: parsed[field] = _norm_scalar(raw)
NormScalar ==
    /\ nz.phase = "raw"
    /\ nz' = [nz EXCEPT !.phase = "norm", !.val = norm_scalar(nz.raw)]
    /\ UNCHANGED << pipeVars, idn, fpr, rt, fl, bo >>

\* load_from_env, config.py 518: PlatformConfig.parse_obj(parsed)
ParseObj ==
    /\ nz.phase = "norm"
    /\ LET v == parse_field(nz.field, nz.val)
       IN nz' = [nz EXCEPT !.phase = IF v = VError THEN "invalid" ELSE "loaded", !.parsed = v]
    /\ UNCHANGED << pipeVars, idn, fpr, rt, fl, bo >>

\* build_canonical_config, config.py 522-538
BuildCanonical ==
    /\ nz.phase = "loaded"
    /\ LET c == canonical_value(nz.parsed)
       IN nz' = [nz EXCEPT !.phase = "canon", !.canon = c,
                           !.json = json_dumps(<< nz.field >>, [k \in {nz.field} |-> c])]
    /\ UNCHANGED << pipeVars, idn, fpr, rt, fl, bo >>

NormNext ==
    \/ NormScalar
    \/ ParseObj
    \/ BuildCanonical

SpecNorm == NormInit /\ [][NormNext]_vars

\* ------------------------------------- from the environment to the identity
IdentInit ==
    /\ PipelineIdle
    /\ nz = NzIdle
    /\ fpr = FprIdle
    /\ rt = RtIdle
    /\ fl = FlIdle
    /\ bo = BoIdle
    /\ \E env \in Envs, f \in Fingerprints \cup {NoFingerprint} :
           idn = [IdnIdle EXCEPT !.phase = "env", !.env = env, !.fp = f]

\* config.py 512-520
LoadFromEnv ==
    /\ idn.phase = "env"
    /\ idn' = [idn EXCEPT !.phase = IF Validates(idn.env) THEN "loaded" ELSE "invalid",
                          !.cfg = load_from_env(idn.env)]
    /\ UNCHANGED << pipeVars, nz, fpr, rt, fl, bo >>

\* canonical_json_and_hash, config.py 541-542
BuildCanonicalJson ==
    /\ idn.phase = "loaded"
    /\ idn' = [idn EXCEPT !.phase = "canon",
                          !.canon = build_canonical_config(idn.cfg),
                          !.json = CanonicalJson(idn.cfg)]
    /\ UNCHANGED << pipeVars, nz, fpr, rt, fl, bo >>

\* canonical_json_and_hash, config.py 543
ComputeFullHash ==
    /\ idn.phase = "canon"
    /\ LET r == compute_full_hash_and_run_id(idn.json, idn.fp, idn.cfg["STRICT_DATA_FINGERPRINT"].b)
       IN idn' = [idn EXCEPT !.phase = IF r.raised THEN "raised" ELSE "hashed", !.id = r]
    /\ UNCHANGED << pipeVars, nz, fpr, rt, fl, bo >>

IdentNext ==
    \/ LoadFromEnv
    \/ BuildCanonicalJson
    \/ ComputeFullHash

SpecIdent == IdentInit /\ [][IdentNext]_vars

\* ------------------------------------------- compute_data_fingerprint, by call
FpInit ==
    /\ PipelineIdle
    /\ nz = NzIdle
    /\ idn = IdnIdle
    /\ rt = RtIdle
    /\ fl = FlIdle
    /\ bo = BoIdle
    /\ \E c \in Contents, m \in InfoModes, e \in EmptyDirKinds, pe \in BOOLEAN :
           fpr = [FprIdle EXCEPT !.phase = "list", !.content = c, !.mode = m, !.emptyDir = e,
                                 !.prefer = pe]

\* _retry, config.py 122-131: the call is tried again until Attempts are used up
Retried(r) ==
    IF r.attempt + 1 < Attempts THEN [r EXCEPT !.attempt = r.attempt + 1]
    ELSE [r EXCEPT !.phase = "raised"]

\* config.py 216-218: the list _list_files returned
Listed(r, files, how, skipped, order) ==
    IF files = << >> THEN [r EXCEPT !.phase = "raised", !.how = how]
    ELSE [r EXCEPT !.phase = "tokens", !.attempt = 0, !.how = how, !.skipped = skipped,
                   !.order = order, !.files = files]

\* one call of _list_files, config.py 194-216
FpListFiles ==
    /\ fpr.phase = "list"
    /\ \/ \E order \in Perms(FindEntries(fpr.emptyDir)) :
              fpr' = Listed(fpr, list_files_find(order), "find", FALSE, order)
       \/ \E order \in Perms(LsEntries(fpr.emptyDir)), dOk \in BOOLEAN :
              fpr' = Listed(fpr, list_files_ls(order, dOk, fpr.emptyDir), "ls", ~dOk, order)
       \/ \E exists \in BOOLEAN :
              fpr' = Listed(fpr, IF exists THEN << Root >> ELSE << >>, "root", FALSE, << >>)
       \/ fpr' = Retried(fpr)
    /\ UNCHANGED << pipeVars, nz, idn, rt, fl, bo >>

\* one call of _token_for_path for the next file, config.py 221-243
FpTokenForPath ==
    /\ fpr.phase = "tokens"
    /\ Len(fpr.kinds) < Len(fpr.files)
    /\ \E infoOk \in BOOLEAN, streamOk \in BOOLEAN, chunk \in ChunkSizes :
           LET path == fpr.files[Len(fpr.kinds) + 1]
               info == IF infoOk THEN Info(path, fpr.content, fpr.mode) ELSE EmptyInfo
               et == IF fpr.prefer THEN extract_etag_like(info) ELSE NoField
               digest == stream_sha256_of_path(ContentOf(path, fpr.content), chunk)
           IN fpr' = IF et # NoField
                     THEN [fpr EXCEPT !.kinds = Append(fpr.kinds, "meta"), !.attempt = 0,
                                      !.infos = Append(fpr.infos, info),
                                      !.tokens = Append(fpr.tokens, MetaToken(path, info))]
                     ELSE IF streamOk /\ path # Root
                     THEN [fpr EXCEPT !.kinds = Append(fpr.kinds, "sha"), !.attempt = 0,
                                      !.infos = Append(fpr.infos, info), !.chunk = chunk,
                                      !.tokens = Append(fpr.tokens, path \o << ":", "sha256", ":" >> \o digest)]
                     ELSE Retried(fpr)
    /\ UNCHANGED << pipeVars, nz, idn, rt, fl, bo >>

\* config.py 246-247
FpReturn ==
    /\ fpr.phase = "tokens"
    /\ Len(fpr.kinds) = Len(fpr.files)
    /\ LET result == sha256_hexdigest(JoinBar(fpr.tokens))
       IN fpr' = [fpr EXCEPT !.phase = "done", !.result = result,
                             !.first = IF fpr.first = NoFingerprint THEN result ELSE fpr.first]
    /\ UNCHANGED << pipeVars, nz, idn, rt, fl, bo >>

\* the next invocation computes the fingerprint of the same data root
FpAgain ==
    /\ fpr.phase \in {"done", "raised"}
    /\ fpr' = [FprIdle EXCEPT !.phase = "list", !.content = fpr.content, !.mode = fpr.mode,
                              !.emptyDir = fpr.emptyDir, !.prefer = fpr.prefer, !.first = fpr.first]
    /\ UNCHANGED << pipeVars, nz, idn, rt, fl, bo >>

FpNext ==
    \/ FpListFiles
    \/ FpTokenForPath
    \/ FpReturn
    \/ FpAgain

SpecFp == FpInit /\ [][FpNext]_vars

\* ------------------------------------------------------------ _retry
\* the largest attempts argument _retry is called with in the model
MaxAttempts == 4
\* what a call of fn does: it returns a value or raises an exception
FnReturns == {"V1", "V2"}
FnRaises == {"E1", "E2"}
\* config.py 122: base_delay=0.5 and max_delay=5.0, in tenths of a second;
\* config.py 129: random.random() * 0.1 adds less than a tenth
BaseDelay == 5
MaxDelay == 50
Jitter == {0, 1}
RECURSIVE Pow2(_)
Pow2(n) == IF n = 0 THEN 1 ELSE 2 * Pow2(n - 1)
Min(a, b) == IF a < b THEN a ELSE b
\* config.py 129
SleepFor(i, jitter) == Min(MaxDelay, BaseDelay * Pow2(i) + jitter)

\* range(attempts) taken one too far
InRange_Inclusive(i, attempts) == i <= attempts

\* config.py 124: for i in range(attempts)
InRange(i, attempts) == i < attempts

RetryInit ==
    /\ PipelineIdle
    /\ nz = NzIdle
    /\ idn = IdnIdle
    /\ fpr = FprIdle
    /\ fl = FlIdle
    /\ bo = BoIdle
    /\ \E n \in 0..MaxAttempts : rt = [RtIdle EXCEPT !.phase = "loop", !.attempts = n]

\* config.py 125-128: fn() is called; its value is returned, or its exception
\* is kept in last
RetryCall ==
    /\ rt.phase = "loop"
    /\ InRange(rt.i, rt.attempts)
    /\ \/ \E v \in FnReturns :
             rt' = [rt EXCEPT !.phase = "returned", !.calls = rt.calls + 1,
                              !.hist = Append(rt.hist, v), !.result = v]
       \/ \E e \in FnRaises :
             rt' = [rt EXCEPT !.phase = "sleep", !.calls = rt.calls + 1,
                              !.hist = Append(rt.hist, e), !.last = e]
    /\ UNCHANGED << pipeVars, nz, idn, fpr, fl, bo >>

\* config.py 129-130: the delay before the next turn of the loop
RetrySleep ==
    /\ rt.phase = "sleep"
    /\ \E j \in Jitter :
          rt' = [rt EXCEPT !.phase = "loop", !.i = rt.i + 1, !.sleep = SleepFor(rt.i, j)]
    /\ UNCHANGED << pipeVars, nz, idn, fpr, fl, bo >>

\* config.py 131: raise last; with attempts=0 last is None and the raise
\* statement itself raises TypeError
RetryRaise ==
    /\ rt.phase = "loop"
    /\ ~InRange(rt.i, rt.attempts)
    /\ rt' = [rt EXCEPT !.phase = "raised",
                        !.exc = IF rt.last = "None" THEN "TypeError" ELSE rt.last]
    /\ UNCHANGED << pipeVars, nz, idn, fpr, fl, bo >>

RetryNext ==
    \/ RetryCall
    \/ RetrySleep
    \/ RetryRaise

SpecRetry == RetryInit /\ [][RetryNext]_vars

\* ------------------------------------------------------ the Flyte workflow
\* what an earlier execution can have left at the artifact_root of this
\* identity: nothing, a completed local run of the same identity, or the
\* marker and snapshot of another identity with the same run_id
PriorRuns == {"none", "completed", "other"}
OtherSnapshot == [st |-> "ok", fh |-> << DigestBase, DigestBase >>, fp |-> 0]
PriorSnapshot(prior, full_hash, fingerprint) ==
    IF prior = "none" THEN Absent
    ELSE IF prior = "completed" THEN Snapshot(full_hash, fingerprint)
    ELSE OtherSnapshot

FlyteInit ==
    /\ PipelineIdle
    /\ nz = NzIdle
    /\ idn = IdnIdle
    /\ fpr = FprIdle
    /\ rt = RtIdle
    /\ bo = BoIdle
    /\ \E f \in BOOLEAN, prior \in PriorRuns, c \in RawConfigs, d \in DataContents :
          /\ c.valid
          /\ LET h == compute_full_hash(canonical_json_str(c), compute_data_fingerprint(d), c.strict)
             IN fl = [FlIdle EXCEPT !.phase = "run", !.force = f, !.full = h,
                                    !.fp = compute_data_fingerprint(d),
                                    !.marker = (prior # "none"),
                                    !.snap = PriorSnapshot(prior, h, compute_data_fingerprint(d))]

\* flyte_adapter.py 18-33: the identity is computed and the snapshot persisted;
\* a failure fails the task, and with it the workflow
flyte_bootstrap ==
    /\ fl.phase = "run"
    /\ fl.boot = "pending"
    /\ \/ fl' = [fl EXCEPT !.boot = "done", !.snap = Snapshot(fl.full, fl.fp)]
       \/ \E s \in CopyFailureLeaves(fl.snap) \cup {Snapshot(fl.full, fl.fp)} :
             fl' = [fl EXCEPT !.boot = "failed", !.phase = "raised", !.snap = s]
    /\ UNCHANGED << pipeVars, nz, idn, fpr, rt, bo >>

\* flyte_adapter.py 35-49: the check, then early_exit=True, or the best-effort
\* removal of the marker and early_exit=False
flyte_idempotence ==
    /\ fl.phase = "run"
    /\ fl.boot = "done"
    /\ fl.idem = "pending"
    /\ \E m \in {IF fl.marker THEN "present" ELSE "absent", "error"}, s \in {fl.snap, Unreadable} :
          LET chk == check_existing_run_and_validate(m, s, fl.full, fl.fp)
              d == GateDecision(chk.exists, fl.force)
              obs == Observed(m, s, fl.full, fl.fp)
          IN \/ /\ d = "early"
                /\ fl' = [fl EXCEPT !.idem = "done", !.early = "early", !.seen = obs]
             \/ /\ d = "remove"
                /\ \/ fl' = [fl EXCEPT !.idem = "done", !.early = "proceed", !.seen = obs,
                                       !.marker = FALSE, !.logged = "removed marker"]
                   \/ fl' = [fl EXCEPT !.idem = "done", !.early = "proceed", !.seen = obs,
                                       !.logged = "could not remove marker"]
             \/ /\ d = "proceed"
                /\ fl' = [fl EXCEPT !.idem = "done", !.early = "proceed", !.seen = obs]
    /\ UNCHANGED << pipeVars, nz, idn, fpr, rt, bo >>

\* flyte_adapter.py 51-61 and 88: the task takes its inputs from boot alone
flyte_fe ==
    /\ fl.phase = "run"
    /\ fl.boot = "done"
    /\ fl.fe = "pending"
    /\ \/ fl' = [fl EXCEPT !.fe = "done"]
       \/ fl' = [fl EXCEPT !.fe = "failed", !.phase = "raised"]
    /\ UNCHANGED << pipeVars, nz, idn, fpr, rt, bo >>

\* flyte_adapter.py 63-77 and 89: the task takes its inputs from fe and boot
flyte_train ==
    /\ fl.phase = "run"
    /\ fl.fe = "done"
    /\ fl.train = "pending"
    /\ \/ fl' = [fl EXCEPT !.train = "done"]
       \/ fl' = [fl EXCEPT !.train = "failed", !.phase = "raised"]
    /\ UNCHANGED << pipeVars, nz, idn, fpr, rt, bo >>

\* flyte_adapter.py 90-94: the workflow returns run_id, artifact_root and
\* model_uri once every task is done
workflow_return ==
    /\ fl.phase = "run"
    /\ fl.idem = "done"
    /\ fl.train = "done"
    /\ fl' = [fl EXCEPT !.phase = "returned"]
    /\ UNCHANGED << pipeVars, nz, idn, fpr, rt, bo >>

FlyteNext ==
    \/ flyte_bootstrap
    \/ flyte_idempotence
    \/ flyte_fe
    \/ flyte_train
    \/ workflow_return

SpecFlyte == FlyteInit /\ [][FlyteNext]_vars

\* ------------------------------------------- the bootstrap of the entrypoints
\* the values DATA_ROOT and PIPELINE_ROOT_URI are given: a bare absolute
\* path, one with a trailing slash, a file URI, an object-store URI
DataRootInputs == { << "/", "d" >>, << "/", "d", "/" >>, << "file://", "/", "d" >>, << "s3://", "b" >> }
PipelineRootInputs == { << "/", "p" >>, << "file://", "/", "p" >>, << "s3://", "o", "/" >> }
BootContents == { << "A" >>, << "B" >> }

\* str.rstrip("/")
RECURSIVE RStripSlash(_)
RStripSlash(u) ==
    IF u # << >> /\ u[Len(u)] = "/" THEN RStripSlash(SubSeq(u, 1, Len(u) - 1)) ELSE u
\* os.path.abspath of an absolute path: a trailing slash is dropped, the root
\* itself is kept
abspath(path) == IF RStripSlash(path) = << >> THEN << "/" >> ELSE RStripSlash(path)

\* pipeline.py 14-17: a value that starts with "/" becomes a file URI
LocalRewrite(u) ==
    IF u # << >> /\ Head(u) = "/" THEN << "file://" >> \o abspath(u) ELSE u

\* config.py 133-142
to_abs_file_uri(u) ==
    IF u = << >> THEN u
    ELSE IF Head(u) = "file://" THEN << "file://" >> \o abspath(Tail(u))
    ELSE IF Head(u) = "/" THEN << "file://" >> \o abspath(u)
    ELSE u

\* compute_data_fingerprint seen from the bootstrap (config.py 191-193 and
\* 246-247): the digest over the files found at the resolved root
DataFingerprintAt(data_root, content) ==
    sha256_hexdigest(RStripSlash(to_abs_file_uri(data_root)) \o << "|" >> \o content)

\* config.py 283-287
derive_artifact_root_uri(pipeline_root_uri, run_id) ==
    RStripSlash(pipeline_root_uri) \o << "/ml8s_training_runs/" >> \o run_id

\* config.py 540-544 on a config with the identity fields DATA_ROOT and
\* STRICT_DATA_FINGERPRINT, then derive_artifact_root
BootResult(data_root, pipeline_root_uri, strict, content) ==
    LET data_fp == DataFingerprintAt(data_root, content)
        canonical_cfg == [ DATA_ROOT |-> canonical_value(VStr(data_root)),
                           STRICT_DATA_FINGERPRINT |-> canonical_value(VBool(strict)) ]
        canonical_json == json_dumps(<< "DATA_ROOT", "STRICT_DATA_FINGERPRINT" >>, canonical_cfg)
        id == compute_full_hash_and_run_id(canonical_json, data_fp, strict)
    IN [ state |-> "returned", canonical_json |-> canonical_json, data_fingerprint |-> data_fp,
         full_config_hash |-> id.full, run_id |-> id.run_id,
         artifact_root |-> derive_artifact_root_uri(pipeline_root_uri, id.run_id) ]

\* persist_config_snapshot raised: the bootstrap returns nothing
BootRaised == [NoBoot EXCEPT !.state = "raised"]

BootInit ==
    /\ PipelineIdle
    /\ nz = NzIdle
    /\ idn = IdnIdle
    /\ fpr = FprIdle
    /\ rt = RtIdle
    /\ fl = FlIdle
    /\ \E d \in DataRootInputs, pr \in PipelineRootInputs, st \in BOOLEAN, c \in BootContents :
          bo = [BoIdle EXCEPT !.phase = "env", !.DATA_ROOT = d, !.PIPELINE_ROOT_URI = pr,
                              !.strict = st, !.content = c]

\* pipeline.py 11-33
BootLocal ==
    /\ bo.phase = "env"
    /\ bo.local.state = "none"
    /\ \E persisted \in BOOLEAN :
          bo' = [bo EXCEPT !.local =
                    IF persisted
                    THEN BootResult(LocalRewrite(bo.DATA_ROOT), LocalRewrite(bo.PIPELINE_ROOT_URI),
                                    bo.strict, bo.content)
                    ELSE BootRaised]
    /\ UNCHANGED << pipeVars, nz, idn, fpr, rt, fl >>

\* flyte_adapter.py 18-33
BootFlyte ==
    /\ bo.phase = "env"
    /\ bo.flyte.state = "none"
    /\ \E persisted \in BOOLEAN :
          bo' = [bo EXCEPT !.flyte =
                    IF persisted
                    THEN BootResult(bo.DATA_ROOT, bo.PIPELINE_ROOT_URI, bo.strict, bo.content)
                    ELSE BootRaised]
    /\ UNCHANGED << pipeVars, nz, idn, fpr, rt, fl >>

\* config.py 546-562
BootMain ==
    /\ bo.phase = "env"
    /\ bo.main.state = "none"
    /\ \E persisted \in BOOLEAN :
          bo' = [bo EXCEPT !.main =
                    IF persisted
                    THEN BootResult(bo.DATA_ROOT, bo.PIPELINE_ROOT_URI, bo.strict, bo.content)
                    ELSE BootRaised]
    /\ UNCHANGED << pipeVars, nz, idn, fpr, rt, fl >>

BootNext ==
    \/ BootLocal
    \/ BootFlyte
    \/ BootMain

SpecBoot == BootInit /\ [][BootNext]_vars

\* ------------------------------------------------ overlapping invocations
\* a pipeline process is started while another one may be running: nothing
\* in run_pipeline_local waits for or excludes another process
StartConcurrent(p) ==
    /\ pc[p] = "idle"
    /\ \E c \in RawConfigs, f \in BOOLEAN :
          /\ cfg' = [cfg EXCEPT ![p] = c]
          /\ force' = [force EXCEPT ![p] = f]
    /\ pc' = [pc EXCEPT ![p] = "boot"]
    /\ UNCHANGED << hasRename, storage, fp, full, out, reason, logged, gateSeen,
                    downstream, snapWrites, markerBy, persistErr, prev >>

\* one invocation per process, followed up to its result
ConcStep(p) ==
    \/ bootstrap_and_hash(p)
    \/ atomic_write_tmp(p)
    \/ atomic_rename(p)
    \/ atomic_copy(p)
    \/ atomic_rm_tmp(p)
    \/ idempotence_gate(p)
    \/ gate_remove_marker(p)
    \/ run_makedirs(p)
    \/ run_preprocessing(p)
    \/ run_train_and_eval(p)
    \/ marker_write_tmp(p)
    \/ marker_rename(p)
    \/ marker_copy(p)
    \/ marker_rm_tmp(p)

ConcNext ==
    \/ (\E p \in Procs : StartConcurrent(p)) /\ UNCHANGED pureVars
    \/ (\E p \in Procs : ConcStep(p)) /\ UNCHANGED pureVars

SpecConc == Init /\ [][ConcNext]_vars

TypeOK ==
    /\ hasRename \in BOOLEAN
    /\ \A p \in Procs : out[p] \in {"none", "early", "normal", "raised"}

\* ---------------------------------------------------------------- claims
PastGate == {"gate_rm", "mkdirs", "prep", "train", "mk_tmp", "mk_rename", "mk_copy", "mk_rm", "ret"}
Proceeding == {"mkdirs", "prep", "train", "mk_tmp", "mk_rename", "mk_copy", "mk_rm", "ret"}
GateOrLater == {"gate", "gate_rm", "mkdirs", "prep", "train", "mk_tmp", "mk_rename", "mk_copy", "mk_rm"}
Identity(p) == [fh |-> full[p], fp |-> fp[p]]

\* C1: an invocation returns early_exit=True only if the success marker at its
\* artifact root is present and was created by an invocation with the same
\* full_hash and the same data fingerprint that completed preprocessing and
\* training.
C1_CacheSoundness ==
    \A p \in Procs :
        (pc[p] = "ret" /\ out[p] = "early") =>
            /\ marker[RootOf(p)]
            /\ markerOwner[RootOf(p)] = Identity(p)

\* C2: when the gate sees the marker present and a readable snapshot whose
\* (full_hash, data_fingerprint) equals the expected pair, and force_rerun is
\* off, the invocation returns early_exit=True with reason "valid cached run",
\* the marker stays in place and no downstream stage has run.
C2_GateValidCache ==
    \A p \in Procs :
        (gateSeen[p] = "valid" /\ ~force[p]) =>
            /\ pc[p] = "ret"
            /\ out[p] = "early"
            /\ reason[p] = "valid cached run"
            /\ marker[RootOf(p)]
            /\ downstream[p] = "none"
            /\ ~markerBy[p]

C2_Witness ==
    \E p \in Procs : gateSeen[p] = "valid" /\ ~force[p] /\ pc[p] = "ret" /\ out[p] = "early"

\* C3: when the gate sees no success marker, for either value of force_rerun,
\* it returns early_exit=False without raising and without touching the
\* marker, and the invocation goes on to the downstream stages.
C3_GateNoPriorRun ==
    \A p \in Procs :
        gateSeen[p] = "nomarker" =>
            /\ pc[p] \in Proceeding
            /\ out[p] # "early"
            /\ logged[p] = "none"
            /\ (pc[p] = "ret" => downstream[p] # "none")

C3_Witness ==
    \E p \in Procs : gateSeen[p] = "nomarker" /\ force[p] /\ pc[p] = "prep"

\* C4: when the marker is present but the marker or snapshot read fails, the
\* snapshot is missing or unparsable, or its hashes do not match, the gate
\* returns early_exit=False without raising: the invocation is never an early
\* exit and goes on to the downstream stages.
C4_GateAnomalyProceeds ==
    \A p \in Procs :
        gateSeen[p] = "anomaly" =>
            /\ pc[p] \in Proceeding
            /\ out[p] # "early"
            /\ reason[p] = "none"
            /\ (pc[p] = "ret" => downstream[p] # "none")

C4_Witness ==
    \E p \in Procs : gateSeen[p] = "anomaly" /\ ~force[p] /\ marker[RootOf(p)] /\ pc[p] = "prep"

\* C5: on a valid prior run with force_rerun on, the gate returns
\* early_exit=False without raising; unless the deletion failed and was
\* logged, the marker is gone before and while the downstream stages run; and
\* when the downstream stages succeed and the invocation returns its normal
\* result, the marker exists again.
C5_ForcedRerun ==
    \A p \in Procs :
        (gateSeen[p] = "valid" /\ force[p]) =>
            /\ pc[p] \in PastGate
            /\ out[p] # "early"
            /\ (pc[p] = "ret" => downstream[p] # "none")
            /\ (pc[p] \in {"mkdirs", "prep", "train"} =>
                    (~marker[RootOf(p)] \/ logged[p] = "could not remove marker"))
            /\ ((pc[p] = "ret" /\ out[p] = "normal") => marker[RootOf(p)])

\* C6: an invocation whose preprocessing and training succeeded returns with
\* the success marker and the snapshot in place, and the next invocation with
\* the same raw configuration, the same data and force_rerun off finds a valid
\* prior run and short-circuits without running a downstream stage.
C6_TwoInvocations ==
    \A p \in Procs :
        pc[p] = "ret" =>
            /\ (out[p] = "normal" => (marker[RootOf(p)] /\ snap[RootOf(p)] = Snapshot(full[p], fp[p])))
            /\ ((prev # NoPrev /\ prev.cfg = cfg[p] /\ prev.fp = fp[p] /\ ~force[p]) =>
                    (out[p] = "early" /\ gateSeen[p] = "valid" /\ downstream[p] = "none"))

\* C7: an invocation has created the success marker only if its preprocessing
\* and training both returned, and after creating it the invocation performs
\* no storage action other than removing the marker's temp object.
C7_MarkerOnlyAfterSuccess ==
    \A p \in Procs :
        markerBy[p] =>
            /\ downstream[p] = "train_ok"
            /\ pc[p] \in {"mk_rm", "ret"}
            /\ marker[RootOf(p)]

C7_Witness ==
    \E p \in Procs : markerBy[p] /\ pc[p] = "ret" /\ out[p] = "normal"

\* C8: an invocation writes config_snapshot.json at most once, only after its
\* run identity is computed, and has written it exactly once whenever the gate
\* is being or has been evaluated or a downstream stage has started.
C8_SnapshotBeforeGate ==
    \A p \in Procs :
        /\ snapWrites[p] <= 1
        /\ (snapWrites[p] = 1 => (full[p] # NoDigest /\ snap[RootOf(p)] = Snapshot(full[p], fp[p])))
        /\ ((pc[p] \in GateOrLater \/ gateSeen[p] # "none" \/ downstream[p] # "none")
                => snapWrites[p] = 1)
        /\ (pc[p] \in {"boot", "write_tmp", "rename", "copy"} => (gateSeen[p] = "none" /\ downstream[p] = "none"))

C8_Witness ==
    \E p \in Procs : pc[p] = "prep" /\ snapWrites[p] = 1

\* C9: when a storage call of the snapshot write fails for good (temp write,
\* copy fallback, temp removal), the invocation ends with the exception: the
\* gate is not evaluated, no downstream stage starts and no marker is created.
C9_PersistFailureFatal ==
    \A p \in Procs :
        persistErr[p] =>
            /\ pc[p] = "ret"
            /\ out[p] = "raised"
            /\ gateSeen[p] = "none"
            /\ downstream[p] = "none"
            /\ ~markerBy[p]

C9_Witness ==
    \E p \in Procs : persistErr[p] /\ pc[p] = "ret" /\ snapWrites[p] = 0

\* C10: the object at the final snapshot uri is never a partially written one.
C10_NoPartialFinal ==
    \A r \in Roots : snap[r] # Partial

\* ---------------------------------------------------- claims on the normalizer
HasComma(s) == \E i \in 1..Len(s) : s[i] = ","
Range(q) == {q[i] : i \in 1..Len(q)}
\* the trimmed non-empty items of a comma-separated raw value
ItemSet(raw) == LET parts == Split(raw, << >>) IN {strip(parts[i]) : i \in 1..Len(parts)} \ {<< >>}
StrictlySorted(items) == \A i \in 1..(Len(items) - 1) : StrLess(items[i], items[i + 1])
\* t is raw without its leading and trailing blanks
IsTrimOf(t, raw) ==
    /\ t # << >> => (t[1] # " " /\ t[Len(t)] # " ")
    /\ \E a \in 0..Len(raw) :
           /\ a + Len(t) <= Len(raw)
           /\ \A i \in 1..Len(raw) :
                  IF i > a /\ i <= a + Len(t) THEN raw[i] = t[i - a] ELSE raw[i] = " "
Normalized == nz.phase \in {"norm", "loaded", "invalid", "canon"}

\* C20: _norm_scalar trims, then the first rule that matches decides: empty
\* gives null; a case-insensitive true/false/1/0/yes/no gives a bool (so "1"
\* and "0" are booleans, not integers); an integer-looking string an int; a
\* decimal-looking string a float; a string with a comma the deduplicated,
\* sorted array of its trimmed non-empty items; anything else the trimmed
\* string.
C20_RulePrecedence ==
    Normalized =>
        LET t == strip(nz.raw)
            v == nz.val
            isBool == lower(t) \in TrueTokens \cup FalseTokens
        IN /\ IsTrimOf(t, nz.raw)
           /\ (t = << >>) => v = VNull
           /\ (t # << >> /\ isBool) => v = VBool(lower(t) \in TrueTokens)
           /\ (t # << >> /\ ~isBool /\ IntLooking(t)) => v = VInt(IntOf(t))
           /\ (t # << >> /\ ~isBool /\ ~IntLooking(t) /\ DecimalLooking(t)) => v = FloatOf(t)
           /\ (t # << >> /\ ~isBool /\ ~IntLooking(t) /\ ~DecimalLooking(t) /\ HasComma(t)) =>
                  /\ v.t = "list"
                  /\ StrictlySorted(v.items)
                  /\ Range(v.items) = ItemSet(t)
           /\ (t # << >> /\ ~isBool /\ ~IntLooking(t) /\ ~DecimalLooking(t) /\ ~HasComma(t)) => v = VStr(t)
           /\ (t \in {<< "1" >>, << "0" >>}) => v.t = "bool"

C20_Witness ==
    /\ nz.phase = "norm"
    /\ nz.raw = << " ", "1" >>
    /\ nz.val = VBool(TRUE)

\* C19: a comma-separated raw value of a list-valued identity field is
\* accepted or rejected, and canonicalized, by its set of trimmed non-empty
\* items alone: the canonical value is the strictly sorted array of the items
\* as strings, so "3,1,2,3" and "1,2,3" both give ["1","2","3"], and the
\* canonical JSON (hence full_hash) is the same.
CanonItems(field, items) ==
    IF field = "LAG_PERIODS" THEN {IntStr(IntOf(x)) : x \in items} ELSE items
Accepted(field, items) == field = "LAG_PERIODS" => \A x \in items : IntLooking(x)
C19_ListCanonicalization ==
    (Normalized /\ HasComma(nz.raw)) =>
        /\ nz.phase = "invalid" => ~Accepted(nz.field, ItemSet(nz.raw))
        /\ nz.phase \in {"loaded", "canon"} => Accepted(nz.field, ItemSet(nz.raw))
        /\ nz.phase = "canon" =>
               /\ nz.canon.t = "list"
               /\ StrictlySorted(nz.canon.items)
               /\ Range(nz.canon.items) = CanonItems(nz.field, ItemSet(nz.raw))
               /\ nz.json = json_dumps(<< nz.field >>, [k \in {nz.field} |-> nz.canon])
               /\ nz.raw \in { << "3", ",", "1", ",", "2", ",", "3" >>, << "1", ",", "2", ",", "3" >> } =>
                      nz.canon = VList(<< << "1" >>, << "2" >>, << "3" >> >>)

C19_Witness ==
    /\ nz.phase = "canon"
    /\ nz.raw = << "3", ",", "1", ",", "2", ",", "3" >>
    /\ nz.field = "LAG_PERIODS"
    /\ nz.canon = VList(<< << "1" >>, << "2" >>, << "3" >> >>)

\* ------------------------------------------------------ claims on the identity
\* the identity canonical_json_and_hash gives for an environment that validates
IdentityOf(env, f) ==
    LET c == load_from_env(env)
    IN compute_full_hash_and_run_id(CanonicalJson(c), f, c["STRICT_DATA_FINGERPRINT"].b)

\* C12: for every name on IDENTITY_VARS, a configuration that validates and
\* differs from this one in the normalized value of that name only, with the
\* same data fingerprint, has a different canonical JSON and a different
\* full_hash.
C12_IdentitySensitivity ==
    idn.phase = "hashed" =>
        \A k \in IDENTITY_VARS : \A r \in RawValues[k] :
            LET env2 == [idn.env EXCEPT ![k] = r]
            IN (Validates(env2) /\ norm_scalar(r) # norm_scalar(idn.env[k])) =>
                   /\ CanonicalJson(load_from_env(env2)) # idn.json
                   /\ IdentityOf(env2, idn.fp).full # idn.id.full

\* C13: a configuration that differs from this one in platform variables only
\* has the same canonical JSON, full_hash and run_id, and no platform variable
\* is a key of the canonical config.
PlatformChoices == [CACHE_ENABLED : RawValues.CACHE_ENABLED, LOG_LEVEL : RawValues.LOG_LEVEL, RAY_NUM_CPUS : RawValues.RAY_NUM_CPUS]
C13_PlatformInsensitivity ==
    idn.phase = "hashed" =>
        /\ (DOMAIN idn.canon) \cap PLATFORM_VARS = {}
        /\ \A i \in 1..Len(idn.json) : idn.json[i] \notin PLATFORM_VARS
        /\ \A po \in PlatformChoices :
               LET env2 == [k \in EnvNames |-> IF k \in PLATFORM_VARS THEN po[k] ELSE idn.env[k]]
               IN Validates(env2) =>
                      /\ CanonicalJson(load_from_env(env2)) = idn.json
                      /\ IdentityOf(env2, idn.fp) = idn.id

C13_Witness ==
    /\ idn.phase = "hashed"
    /\ idn.env["LOG_LEVEL"] = << "D", "E", "B", "U", "G" >>
    /\ idn.env["CACHE_ENABLED"] = << "0" >>
    /\ idn.env["RAY_NUM_CPUS"] = << "4" >>
    /\ idn.id = IdentityOf([idn.env EXCEPT !["LOG_LEVEL"] = << "I", "N", "F", "O" >>,
                                          !["CACHE_ENABLED"] = << "t", "r", "u", "e" >>,
                                          !["RAY_NUM_CPUS"] = << "2" >>], idn.fp)

\* C17: with strict mode on and no data fingerprint the call raises and gives
\* no identity; with strict mode on and a fingerprint, full_hash is the hash of
\* canonical_json + "\n" + data_fingerprint and differs for a different
\* fingerprint; with strict mode off, it is the hash of canonical_json alone,
\* whatever the fingerprint.
C17_StrictGating ==
    idn.phase \in {"hashed", "raised"} =>
        LET strict == idn.cfg["STRICT_DATA_FINGERPRINT"].b
        IN /\ (strict /\ idn.fp = NoFingerprint) => (idn.phase = "raised" /\ idn.id = NoIdentity)
           /\ (strict /\ idn.fp # NoFingerprint) =>
                  /\ idn.phase = "hashed"
                  /\ idn.id.full = sha256_hexdigest(idn.json \o << "\n" >> \o idn.fp)
                  /\ \A f \in Fingerprints \ {idn.fp} :
                         compute_full_hash_and_run_id(idn.json, f, strict).full # idn.id.full
           /\ ~strict =>
                  /\ idn.phase = "hashed"
                  /\ idn.id.full = sha256_hexdigest(idn.json)
                  /\ \A f \in Fingerprints \cup {NoFingerprint} :
                         compute_full_hash_and_run_id(idn.json, f, strict).full = idn.id.full

C17_Witness ==
    /\ idn.phase = "raised"
    /\ idn.cfg["STRICT_DATA_FINGERPRINT"] = VBool(TRUE)
    /\ idn.fp = NoFingerprint
    /\ idn.id = NoIdentity

\* ------------------------------------------------- claims on the fingerprint
\* C11: invocations given the same configuration and the same file contents
\* under the data root compute the same data fingerprint (and so the same
\* full_hash and run_id), whatever happened in earlier invocations.
C11_Determinism ==
    fpr.phase = "done" => fpr.result = fpr.first

\* C14: the files the fingerprint is computed over, and the fingerprint, do
\* not depend on the order in which the backend lists the paths, nor on an
\* empty directory under the root.
ExpectedFiles(how, skipped) ==
    IF how = "root" THEN << Root >>
    ELSE IF skipped THEN << FileA >>
    ELSE << FileA, FileX >>
C14_OrderIndependence ==
    fpr.phase \in {"tokens", "done"} =>
        /\ fpr.files = ExpectedFiles(fpr.how, fpr.skipped)
        /\ fpr.phase = "done" =>
               fpr.result = FingerprintOf(ExpectedFiles(fpr.how, fpr.skipped), fpr.kinds, fpr.content, fpr.mode)

C14_Witness ==
    /\ fpr.phase = "done"
    /\ fpr.how = "find"
    /\ fpr.emptyDir = "placeholder"
    /\ fpr.order = << FileX, Placeholder, FileA >>
    /\ fpr.files = << FileA, FileX >>

\* C15: changing a byte of file a, its size and everything else unchanged,
\* changes the fingerprint (stated for the fingerprints that cover file a).
C15_ContentSensitivity ==
    (fpr.phase = "done" /\ \E i \in 1..Len(fpr.files) : fpr.files[i] = FileA) =>
        \A c \in Contents :
            (c # fpr.content /\ Len(c) = Len(fpr.content)) =>
                FingerprintOf(fpr.files, fpr.kinds, c, fpr.mode) # fpr.result

\* C16: a fingerprint that is returned covers every non-directory file under
\* the data root.
C16_NoSilentSkipping ==
    fpr.phase = "done" => {fpr.files[i] : i \in 1..Len(fpr.files)} = DataFiles

\* ------------------------------------------- claims on overlapping invocations
Downstream == {"mkdirs", "prep", "train"}

\* C18: whether an invocation goes on to the downstream stages is decided by
\* what its own gate read and by its own force flag, at one instant; nothing
\* makes it wait for, or yield to, another invocation at the same
\* artifact_root.  (That two invocations are downstream at the same root at
\* the same time is the reachable state C18_Witness.)
C18_NoMutualExclusion ==
    \A p \in Procs :
        /\ pc[p] \in Downstream => (gateSeen[p] \in {"nomarker", "anomaly"} \/ force[p])
        /\ (gateSeen[p] = "valid" /\ ~force[p]) => (pc[p] = "ret" /\ out[p] = "early")

C18_Witness ==
    /\ pc["p1"] \in {"prep", "train"}
    /\ pc["p2"] \in {"prep", "train"}
    /\ Identity("p1") = Identity("p2")
    /\ RootOf("p1") = RootOf("p2")
    /\ gateSeen["p1"] = "nomarker"
    /\ gateSeen["p2"] = "nomarker"
    /\ ~force["p1"]
    /\ ~force["p2"]

\* --------------------------------------------- claims on _atomic_write_json
\* C21: after the temp object is written the rename is tried first; the copy
\* is tried only when the backend has no rename or the rename raised, and the
\* removal of the temp object only after the copy; a failure of the copy or of
\* the removal raises the persistence error; when the write returns, the final
\* uri holds the complete new content and no temp object remains.
C21_RenameFallback ==
    [][\A p \in Procs :
          /\ (pc'[p] = "rename" /\ pc[p] # "rename") => (pc[p] = "write_tmp" /\ hasRename)
          /\ (pc'[p] = "copy" /\ pc[p] # "copy") =>
                 ((pc[p] = "write_tmp" /\ ~hasRename) \/ pc[p] = "rename")
          /\ (pc'[p] = "rm_tmp" /\ pc[p] # "rm_tmp") => pc[p] = "copy"
          /\ (pc[p] = "copy" /\ pc'[p] \notin {"copy", "rm_tmp", "idle"}) =>
                 (pc'[p] = "ret" /\ out'[p] = "raised" /\ persistErr'[p])
          /\ (pc[p] = "rm_tmp" /\ pc'[p] \notin {"rm_tmp", "gate", "idle"}) =>
                 (pc'[p] = "ret" /\ out'[p] = "raised" /\ persistErr'[p])
          /\ (pc[p] \in {"rename", "rm_tmp"} /\ pc'[p] = "gate") =>
                 /\ snap'[RootOf(p)] = Snapshot(full[p], fp[p])
                 /\ snapTmp'[RootOf(p)] = Absent
      ]_vars

C21_Witness ==
    \E p \in Procs :
        /\ pc[p] = "gate"
        /\ ~hasRename
        /\ snapWrites[p] = 1
        /\ snap[RootOf(p)] = Snapshot(full[p], fp[p])
        /\ snapTmp[RootOf(p)] = Absent


\* ------------------------------------------------ claims on the error policy
\* C23: an invocation that returns its normal result after its downstream
\* stages succeeded has itself created the success marker; a failure of the
\* marker write is not turned into a normal result.
C23_NoSwallowedMarkerFailure ==
    \A p \in Procs :
        (pc[p] = "ret" /\ out[p] = "normal" /\ downstream[p] = "train_ok") => markerBy[p]


\* C25: when a forced re-run that found a valid prior run ends because its
\* preprocessing or training raised, no success marker is left at its
\* artifact_root.
C25_NoStaleSuccess ==
    \A p \in Procs :
        (pc[p] = "ret" /\ out[p] = "raised" /\ force[p] /\ gateSeen[p] = "valid"
            /\ downstream[p] = "failed") => ~marker[RootOf(p)]


\* C29: an invocation whose _atomic_write_json raised has not placed the new
\* content at the final uri.
C29_ErrorImpliesNotWritten ==
    \A p \in Procs :
        (pc[p] = "ret" /\ out[p] = "raised" /\ persistErr[p]) => snapWrites[p] = 0


\* C28: with writers of the same final uri running at the same time, a writer
\* that is about to move the temp object finds it where it wrote it, and when a
\* writer returns from the write the final uri holds the complete snapshot of
\* one of the writers of that uri.
C28_ConcurrentWriters ==
    [][\A p \in Procs :
          /\ (pc[p] \in {"rename", "copy"} /\ pc'[p] # pc[p]) => snapTmp[RootOf(p)] # Absent
          /\ (pc[p] \in {"rename", "rm_tmp"} /\ pc'[p] = "gate") =>
                 \E q \in Procs :
                     /\ full[q] # NoDigest
                     /\ RootOf(q) = RootOf(p)
                     /\ snap'[RootOf(p)] = Snapshot(full[q], fp[q])
      ]_vars


\* ------------------------------------- claims on the tokens of the fingerprint
\* the token strategy the metadata of a path selects when fs.info answers
StrategyOf(path, contentA, mode, prefer) ==
    IF prefer /\ extract_etag_like(Info(path, contentA, mode)) # NoField THEN "meta" ELSE "sha"

\* C27: a fingerprint that is returned is the one computed when no storage
\* call fails: over both files, each with the token strategy its metadata
\* selects.
C27_FailureIndependence ==
    fpr.phase = "done" =>
        fpr.result = FingerprintOf(<< FileA, FileX >>,
                                   << StrategyOf(FileA, fpr.content, fpr.mode, fpr.prefer),
                                      StrategyOf(FileX, fpr.content, fpr.mode, fpr.prefer) >>,
                                   fpr.content, fpr.mode)


\* C22: with prefer_etag on, the token of a file is its ETag/MD5 field in the
\* 32-hex-digit form when fs.info gave one of a known form, else "size:<n>"
\* when fs.info gave a size, and the streaming SHA-256 only when it gave
\* neither; with prefer_etag off it is always the streaming SHA-256; and the
\* streaming SHA-256 is that of the whole content whatever the chunk size.
EtagOffered(info) == info.etag # << >> /\ Head(info.etag) \in {"md5", "b64"}
SizeOffered(info) == info.size \notin {<< >>, << "0" >>}
C22_TokenStrategyOrder ==
    \A i \in 1..Len(fpr.tokens) :
        LET path == fpr.files[i]
            info == fpr.infos[i]
            token == fpr.tokens[i]
            rest == SubSeq(token, Len(path) + 2, Len(token))
        IN /\ SubSeq(token, 1, Len(path) + 1) = path \o << ":" >>
           /\ IF fpr.prefer /\ EtagOffered(info)
              THEN /\ Head(rest) = "md5"
                   /\ fpr.kinds[i] = "meta"
              ELSE IF fpr.prefer /\ SizeOffered(info)
              THEN /\ rest = << "size", ":" >> \o info.size
                   /\ fpr.kinds[i] = "meta"
              ELSE /\ rest = << "sha256", ":" >> \o sha256_hexdigest(ContentOf(path, fpr.content))
                   /\ fpr.kinds[i] = "sha"

C22_Witness ==
    /\ fpr.phase = "done"
    /\ fpr.prefer
    /\ fpr.mode = "none"
    /\ fpr.content = << "A", "B" >>
    /\ fpr.chunk = 1
    /\ fpr.files = << FileA, FileX >>
    /\ fpr.kinds = << "sha", "sha" >>


\* ------------------------------------------------------------ claims on _retry
\* C26: with attempts >= 1, _retry calls fn at most attempts times; a call
\* that returns is the last call and its value is the result; the exception of
\* the last call is raised exactly when all attempts calls raised; and nothing
\* is returned in that case.
C26_BoundedRetry ==
    rt.attempts >= 1 =>
        /\ rt.calls <= rt.attempts
        /\ Len(rt.hist) = rt.calls
        /\ \A k \in 1..Len(rt.hist) :
               rt.hist[k] \in FnReturns =>
                   (k = Len(rt.hist) /\ rt.phase = "returned" /\ rt.result = rt.hist[k])
        /\ rt.phase = "returned" => (rt.calls >= 1 /\ rt.hist[rt.calls] \in FnReturns /\ rt.exc = "None")
        /\ rt.phase = "raised" =>
               /\ rt.calls = rt.attempts
               /\ \A k \in 1..rt.calls : rt.hist[k] \in FnRaises
               /\ rt.exc = rt.hist[rt.calls]
               /\ rt.result = "None"

C26_Witness ==
    /\ rt.phase = "raised"
    /\ rt.attempts = 3
    /\ rt.hist = << "E1", "E2", "E1" >>
    /\ rt.exc = "E1"


\* ------------------------------------------------ claims on the Flyte workflow
\* C24: when flyte_idempotence has reported early_exit=True, the
\* feature-engineering and training tasks of that execution do not run.
C24_FlyteShortCircuit ==
    fl.early = "early" => (fl.fe = "pending" /\ fl.train = "pending" /\ fl.phase # "returned")


\* ------------------------------------------------ claims on the entrypoints
\* C30: from one environment and one data root, the local bootstrap and the
\* Flyte bootstrap that both return give the same canonical JSON, data
\* fingerprint, full hash, run_id and artifact_root.
C30_EntrypointEquivalence ==
    (bo.local.state = "returned" /\ bo.flyte.state = "returned") => bo.local = bo.flyte

====
